---- MODULE Spec2Model ----
(***************************************************************************)
(* Run Coach decision engine (backend_python/run_coach).                   *)
(*                                                                         *)
(* Four components are modelled, each under its own specification:         *)
(*   SpecOptimizer  RunCoachOptimizer   (core/optimizer.py)                *)
(*   SpecRisk       HealthRiskCalculator (core/health_risk.py)             *)
(*   SpecWindows    TimeWindowOptimizer.find_optimal_windows               *)
(*   SpecWeekly     TimeWindowOptimizer.suggest_weekly_schedule            *)
(*   SpecExposure   RunCoachOptimizer._calculate_exposure_score            *)
(*                                                                         *)
(* Floating point values of the source are kept as exact fixed-point       *)
(* integers; the unit of every quantity is stated where it is introduced.  *)
(***************************************************************************)
EXTENDS Integers, Sequences, FiniteSets, TLC

VARIABLES
    \* ---- RunCoachOptimizer ----
    routes,            \* evaluated_routes: sequence of objective vectors
    pareto_front,      \* indices (into routes) of the returned front, in order
    opt_pc,            \* "idle" | "ready" | "done"
    \* ---- HealthRiskCalculator ----
    profile,           \* UserProfile
    activity_level,    \* argument of calculate_personal_threshold
    threshold,         \* last returned threshold (ThresholdScale units) or None
    prev_threshold,    \* threshold returned for the profile before the last
                       \* condition was added, or None
    risk_pc,           \* "idle" | "ready"
    \* ---- TimeWindowOptimizer.find_optimal_windows ----
    aqi_forecast,      \* hourly AQI values returned by get_forecast
    weather_forecast,  \* hourly weather comfort (percent) per forecast hour
    aqi_threshold,     \* personal moderate threshold computed by the call, or None
    duration_minutes,
    min_windows,
    now_hour,          \* datetime.now().hour
    candidate_windows, \* result of _identify_candidate_windows
    windows,           \* list returned by find_optimal_windows
    tw_pc,             \* "idle" | "ready" | "done"
    \* ---- TimeWindowOptimizer.suggest_weekly_schedule ----
    day_scores,        \* best window score of each day 0..6, or None
    runs_per_week,
    selected_days,     \* sequence of selected day indices
    schedule,          \* day -> TRUE (run day) / FALSE (rest day)
    ws_pc              \* "idle" | "ready" | "done" | "error"

VARIABLES
    \* ---- RunCoachOptimizer._calculate_exposure_score ----
    field,             \* position -> [aqi, pm25] answered by the pollution grid
    waypoints,         \* route geometry: positions along a street
    duration_min,
    exposure_score,    \* last returned exposure rate (1/ExposureScale) or None
    prev_waypoints,    \* geometry before midpoints were inserted, or None
    prev_exposure,     \* exposure rate returned for prev_waypoints, or None
    exp_pc,            \* "idle" | "ready"
    \* ---- RunCoachOptimizer.optimize_route / api.recommend_route ----
    candidate_routes,  \* list of candidate dicts from the route generator
    preferences,       \* RunningPreferences
    route_entry,       \* "none" | "optimize_route" | "recommend_route"
    evaluated_routes,  \* objectives of the candidates the optimizer scored
    route_front,       \* indices of the Pareto front
    best_route,        \* index of the ranked best route, or None
    recommendation,    \* RouteRecommendation, or None
    route_error,       \* message of the ValueError raised, or ""
    api_response,      \* "none" | "mock" | "optimized" | "first_candidate"
    route_pc,          \* "idle" | "ready" | "returned" | "ValueError"
    \* ---- PollutionGrid ----
    grid,              \* the fields of the PollutionGrid object
    grid_op,           \* the last call made on the grid and what it returned
    grid_clock,        \* number of non-empty updates so far (datetime.now())
    \* ---- a request thread updating the grid, another one querying it ----
    writer,            \* update_grid in progress: position, sensor data
    reader,            \* _get_value_at_point in progress: position, locals
    grid_before,       \* the grid when the update started
    \* ---- HealthRiskCalculator.exposure_history ----
    exposure_history,  \* user_id -> reference of the user's dict
    hist_heap,         \* the dict objects: reference -> (date key -> score)
    hist_op,           \* the last call made and what it returned
    hist_calls,        \* number of update_exposure_history calls so far
    threads            \* update_exposure_history calls in progress

VARIABLES
    \* ---- PollutionGrid.find_clean_zones ----
    zone_grid,         \* grid shape and the interpolated 'aqi' array, or None
    zone_args,         \* threshold and min_area_m2 of the call
    clean_zones,       \* the list returned: zones as sets of point indices
    zone_pc,           \* "idle" | "ready" | "returned"
    \* ---- HealthRiskCalculator.get_activity_recommendations ----
    forecast_aqi,      \* forecast AQI of the next hours
    current_aqi,
    recommendations,   \* the dict returned, or None
    act_pc,            \* "idle" | "ready" | "returned"
    \* ---- api: module globals and request threads ----
    services,          \* _services_initialized and the service globals
    service_heap,      \* the service objects created so far, by reference
    requests           \* request threads: position and what they used

optVars  == <<routes, pareto_front, opt_pc>>
riskVars == <<profile, activity_level, threshold, prev_threshold, risk_pc>>
twVars   == <<aqi_forecast, weather_forecast, aqi_threshold, duration_minutes,
              min_windows, now_hour, candidate_windows, windows, tw_pc>>
wsVars   == <<day_scores, runs_per_week, selected_days, schedule, ws_pc>>
expVars  == <<field, waypoints, duration_min, exposure_score, prev_waypoints,
              prev_exposure, exp_pc>>
\* the components of the first four specifications, and the later ones
coreVars == <<optVars, riskVars, twVars, wsVars>>
routeVars == <<candidate_routes, preferences, route_entry, evaluated_routes,
               route_front, best_route, recommendation, route_error,
               api_response, route_pc>>
gridVars == <<grid, grid_op, grid_clock>>
concVars == <<writer, reader, grid_before>>
histVars == <<exposure_history, hist_heap, hist_op, hist_calls, threads>>
extVars  == <<expVars, routeVars, gridVars, concVars, histVars>>
zoneVars == <<zone_grid, zone_args, clean_zones, zone_pc>>
actVars  == <<forecast_aqi, current_aqi, recommendations, act_pc>>
apiVars  == <<services, service_heap, requests>>
auxVars  == <<zoneVars, actVars, apiVars>>
vars     == <<coreVars, extVars, auxVars>>

\* Optional values: None is the empty sequence, a present value v is <<v>>
None == <<>>
Some(v) == <<v>>
Val(x) == x[1]

\* ---- generic helpers -----------------------------------------------------

\* all sequences over S of length 0..n
SeqsUpTo(S, n) == UNION {[1..k -> S] : k \in 0..n}

Max2(a, b) == IF a >= b THEN a ELSE b
Min2(a, b) == IF a <= b THEN a ELSE b

RECURSIVE SumSeq(_)
SumSeq(s) == IF s = <<>> THEN 0 ELSE Head(s) + SumSeq(Tail(s))

\* ---- idle values of the components a specification does not exercise -----

OptIdle ==
    /\ routes = <<>>
    /\ pareto_front = <<>>
    /\ opt_pc = "idle"

RiskIdle ==
    /\ profile = [health_conditions |-> <<>>, age_group |-> "25-34",
                  resting_hr |-> None, avg_hrv |-> None,
                  vo2_max_estimate |-> None]
    /\ activity_level = "moderate"
    /\ threshold = None
    /\ prev_threshold = None
    /\ risk_pc = "idle"

WindowsIdle ==
    /\ aqi_forecast = <<>>
    /\ weather_forecast = <<>>
    /\ aqi_threshold = None
    /\ duration_minutes = 60
    /\ min_windows = 3
    /\ now_hour = 0
    /\ candidate_windows = <<>>
    /\ windows = <<>>
    /\ tw_pc = "idle"

WeeklyIdle ==
    /\ day_scores = <<>>
    /\ runs_per_week = 3
    /\ selected_days = <<>>
    /\ schedule = <<>>
    /\ ws_pc = "idle"

ExposureIdle ==
    /\ field = <<>>
    /\ waypoints = <<>>
    /\ duration_min = 30
    /\ exposure_score = None
    /\ prev_waypoints = None
    /\ prev_exposure = None
    /\ exp_pc = "idle"

DefaultPreferences ==
    [preferred_distance_m |-> 5000, max_elevation_gain_m |-> 100,
     avoid_traffic |-> TRUE, prioritize_parks |-> TRUE]

RouteIdle ==
    /\ candidate_routes = <<>>
    /\ preferences = DefaultPreferences
    /\ route_entry = "none"
    /\ evaluated_routes = <<>>
    /\ route_front = <<>>
    /\ best_route = None
    /\ recommendation = None
    /\ route_error = ""
    /\ api_response = "none"
    /\ route_pc = "idle"

\* PollutionGrid.__init__
NewGrid ==
    [grid_bounds |-> None, grid_points |-> None,
     pollution_values |-> [ch \in {} |-> <<>>],
     uncertainty_values |-> [ch \in {} |-> <<>>],
     last_update |-> None]

GridIdle ==
    /\ grid = NewGrid
    /\ grid_op = [op |-> "none"]
    /\ grid_clock = 0

ConcIdle ==
    /\ writer = [pc |-> "idle"]
    /\ reader = [pc |-> "idle"]
    /\ grid_before = NewGrid

\* HealthRiskCalculator.__init__: self.exposure_history = {}
EmptyDict == [k \in {} |-> 0]

HistoryIdle ==
    /\ exposure_history = EmptyDict
    /\ hist_heap = <<>>
    /\ hist_op = [op |-> "none"]
    /\ hist_calls = 0
    /\ threads = <<>>

\* PollutionGrid.__init__ as find_clean_zones sees it: no 'aqi' array
ZonesIdle ==
    /\ zone_grid = [n_lat |-> 0, n_lon |-> 0, aqi |-> None]
    /\ zone_args = [threshold |-> 50, min_area_m2 |-> 10000]
    /\ clean_zones = <<>>
    /\ zone_pc = "idle"

ActivityIdle ==
    /\ forecast_aqi = <<>>
    /\ current_aqi = 0
    /\ recommendations = None
    /\ act_pc = "idle"

\* api.py module level: _services_initialized = False, every service None
NoServices ==
    [initialized |-> FALSE, air_quality_service |-> None,
     pollution_grid |-> None, route_generator |-> None,
     health_risk_calculator |-> None, time_optimizer |-> None,
     route_optimizer |-> None]

ApiIdle ==
    /\ services = NoServices
    /\ service_heap = <<>>
    /\ requests = <<>>

AuxIdle == ZonesIdle /\ ActivityIdle /\ ApiIdle

CoreIdle == OptIdle /\ RiskIdle /\ WindowsIdle /\ WeeklyIdle
ExtIdle  == ExposureIdle /\ RouteIdle /\ GridIdle /\ ConcIdle /\ HistoryIdle

(***************************************************************************)
(* RunCoachOptimizer: Pareto front of the evaluated routes                 *)
(***************************************************************************)

\* keys of the objectives dict (_calculate_objectives)
ObjectiveKeys == {"exposure", "distance_error", "elevation_penalty",
                  "green_space", "safety"}

\* Objective values the candidates are drawn from.  Unit: 1/10 of the
\* source's value (exposure 100 = 10.0, green_space -5 = -0.5).
ObjectiveVals ==
    [exposure          |-> {100, 500},
     distance_error    |-> {0, 1},
     elevation_penalty |-> {0, 1},
     green_space       |-> {-9, -5},
     safety            |-> {-9, -8}]

ObjectiveVectors ==
    [exposure : ObjectiveVals.exposure,
     distance_error : ObjectiveVals.distance_error,
     elevation_penalty : ObjectiveVals.elevation_penalty,
     green_space : ObjectiveVals.green_space,
     safety : ObjectiveVals.safety]

MaxRoutes == 3

\* _check_dominance with the better/worse tests swapped for non-strict ones
CheckDominanceNonStrict(obj1, obj2) ==
    LET better_in_any == \E key \in DOMAIN obj1 : obj1[key] <= obj2[key]
        worse_in_any  == \E key \in DOMAIN obj1 : obj1[key] > obj2[key]
    IN  IF better_in_any /\ ~worse_in_any THEN 1
        ELSE IF worse_in_any /\ ~better_in_any THEN -1
        ELSE 0

\* _check_dominance returning 1 as soon as obj1 is better in some objective
CheckDominanceBetterOnly(obj1, obj2) ==
    LET better_in_any == \E key \in DOMAIN obj1 : obj1[key] < obj2[key]
        worse_in_any  == \E key \in DOMAIN obj1 : obj1[key] > obj2[key]
    IN  IF better_in_any THEN 1
        ELSE IF worse_in_any THEN -1
        ELSE 0

\* RunCoachOptimizer._check_dominance
CheckDominance(obj1, obj2) ==
    LET better_in_any == \E key \in DOMAIN obj1 : obj1[key] < obj2[key]
        worse_in_any  == \E key \in DOMAIN obj1 : obj1[key] > obj2[key]
    IN  IF better_in_any /\ ~worse_in_any THEN 1
        ELSE IF worse_in_any /\ ~better_in_any THEN -1
        ELSE 0

\* domination_count that forgets the "j dominates i" branch
DominationCountForwardOnly(rs, k) ==
    Cardinality({i \in 1..Len(rs) : i < k /\ CheckDominance(rs[i], rs[k]) = 1})

\* domination_count[k] after the pair loop of _find_pareto_optimal_routes:
\* pairs (i,j), i < j; dominance 1 counts against j, -1 counts against i
DominationCount(rs, k) ==
    Cardinality({i \in 1..Len(rs) : i < k /\ CheckDominance(rs[i], rs[k]) = 1})
  + Cardinality({j \in 1..Len(rs) : k < j /\ CheckDominance(rs[k], rs[j]) = -1})

RECURSIVE FrontFrom(_, _)
\* the extraction loop: indices i >= k with domination_count[i] = 0, in order
FrontFrom(rs, k) ==
    IF k > Len(rs) THEN <<>>
    ELSE IF DominationCount(rs, k) = 0
         THEN <<k>> \o FrontFrom(rs, k + 1)
         ELSE FrontFrom(rs, k + 1)

\* RunCoachOptimizer._find_pareto_optimal_routes
FindParetoOptimalRoutes(rs) ==
    IF Len(rs) = 0 THEN <<>> ELSE FrontFrom(rs, 1)

InitOptimizer ==
    /\ routes \in SeqsUpTo(ObjectiveVectors, MaxRoutes)
    /\ pareto_front = <<>>
    /\ opt_pc = "ready"
    /\ RiskIdle /\ WindowsIdle /\ WeeklyIdle /\ ExtIdle
    /\ AuxIdle

FindParetoOptimal ==
    /\ opt_pc = "ready"
    /\ pareto_front' = FindParetoOptimalRoutes(routes)
    /\ opt_pc' = "done"
    /\ UNCHANGED <<routes, riskVars, twVars, wsVars, extVars, auxVars>>

NextOptimizer == FindParetoOptimal

SpecOptimizer == InitOptimizer /\ [][NextOptimizer]_vars

\* ---- claims about the optimizer -------------------------------------------

\* dominance as the glossary defines it: a is at least as good as b in every
\* objective and strictly better in at least one (all objectives minimised)
Dominates(a, b) ==
    /\ \A key \in ObjectiveKeys : a[key] <= b[key]
    /\ \E key \in ObjectiveKeys : a[key] < b[key]

FrontSet == {pareto_front[p] : p \in 1..Len(pareto_front)}

\* C1: no route of the returned front is dominated by any candidate of the
\* full list, and every candidate that no candidate dominates is returned.
ParetoFrontCorrect ==
    opt_pc = "done" =>
        /\ \A f \in FrontSet : \A g \in 1..Len(routes) :
               ~Dominates(routes[g], routes[f])
        /\ \A k \in 1..Len(routes) :
               (\A g \in 1..Len(routes) : ~Dominates(routes[g], routes[k]))
                   => k \in FrontSet

\* a front was computed that left out a dominated candidate and kept others
ParetoFrontWitness ==
    /\ opt_pc = "done"
    /\ Len(routes) = 3
    /\ Len(pareto_front) = 2
    /\ \E k \in 1..Len(routes) : k \notin FrontSet

\* C2: the dominance check is antisymmetric: check(A,B) = 1 iff
\* check(B,A) = -1, never both directions at once, identical vectors give 0.
DominanceAntisymmetric ==
    opt_pc = "done" =>
        \A i, j \in 1..Len(routes) :
            /\ (CheckDominance(routes[i], routes[j]) = 1)
                   <=> (CheckDominance(routes[j], routes[i]) = -1)
            /\ ~(CheckDominance(routes[i], routes[j]) = 1
                 /\ CheckDominance(routes[j], routes[i]) = 1)
            /\ (routes[i] = routes[j])
                   => CheckDominance(routes[i], routes[j]) = 0

\* the pair loop met a dominating pair and a pair of identical vectors
DominanceWitness ==
    /\ opt_pc = "done"
    /\ \E i, j \in 1..Len(routes) :
           i < j /\ CheckDominance(routes[i], routes[j]) = 1
    /\ \E i, j \in 1..Len(routes) : i < j /\ routes[i] = routes[j]

\* the two routes of concrete scenario C
ScenarioC1 == [exposure |-> 100, distance_error |-> 0, elevation_penalty |-> 0,
               green_space |-> -5, safety |-> -8]
ScenarioC2 == [exposure |-> 500, distance_error |-> 0, elevation_penalty |-> 0,
               green_space |-> -9, safety |-> -9]

\* C3 as stated: with exactly the two scenario-C routes, the first dominates
\* the second and the front contains only the first route.
ScenarioCFirstDominates ==
    (opt_pc = "done" /\ routes = <<ScenarioC1, ScenarioC2>>) =>
        /\ CheckDominance(ScenarioC1, ScenarioC2) = 1
        /\ pareto_front = <<1>>

\* C3 amended: with exactly the two scenario-C routes, neither dominates the
\* other (the first is better in exposure, the second in green space and
\* safety) and the front contains both routes, in candidate order.
ScenarioCBothInFront ==
    (opt_pc = "done" /\ routes = <<ScenarioC1, ScenarioC2>>) =>
        /\ CheckDominance(ScenarioC1, ScenarioC2) = 0
        /\ CheckDominance(ScenarioC2, ScenarioC1) = 0
        /\ pareto_front = <<1, 2>>

ScenarioCWitness ==
    /\ opt_pc = "done"
    /\ routes = <<ScenarioC1, ScenarioC2>>
    /\ Len(pareto_front) = 2

(***************************************************************************)
(* HealthRiskCalculator: personal AQI threshold                            *)
(*                                                                         *)
(* Multipliers are kept in units of 1/20 (0.85 = 17, 1.0 = 20); the        *)
(* fitness multiplier, a product of two factors, in units of 1/400.        *)
(***************************************************************************)

\* HealthRiskCalculator.BASE_THRESHOLDS (AQI)
BASE_THRESHOLDS ==
    [rest |-> 150, light |-> 100, moderate |-> 75, vigorous |-> 50]

\* HealthRiskCalculator.CONDITION_MULTIPLIERS (1/20)
CONDITION_MULTIPLIERS ==
    [asthma |-> 12, copd |-> 10, heart_disease |-> 13, allergies |-> 16,
     pregnancy |-> 14, diabetes |-> 17, hypertension |-> 16]

\* HealthRiskCalculator.AGE_MULTIPLIERS (1/20)
AGE_MULTIPLIERS ==
    "0-12" :> 12 @@ "13-17" :> 16 @@ "18-24" :> 20 @@ "25-34" :> 20 @@
    "35-44" :> 19 @@ "45-54" :> 18 @@ "55-64" :> 16 @@ "65+" :> 14

\* one threshold unit = 1/ThresholdScale AQI
ThresholdScale == 20 * 20 * (20 * 20) * 20

\* Python truthiness of an Optional number: None and 0 are falsy
Truthy(x) == x # None /\ Val(x) # 0

\* BASE_THRESHOLDS.get(activity_level, 75)
BaseThreshold(level) ==
    IF level \in DOMAIN BASE_THRESHOLDS THEN BASE_THRESHOLDS[level] ELSE 75

RECURSIVE ConditionMultiplierProduct(_)
\* condition multipliers multiplied together instead of taking the minimum
ConditionMultiplierProduct(conds) ==
    IF conds = <<>> THEN 20
    ELSE LET rest == ConditionMultiplierProduct(Tail(conds))
         IN  IF Head(conds) \in DOMAIN CONDITION_MULTIPLIERS
             THEN (rest * CONDITION_MULTIPLIERS[Head(conds)]) \div 20
             ELSE rest

RECURSIVE ConditionMultiplierLast(_)
\* the last recognised condition overwrites the multiplier (no min)
ConditionMultiplierLast(conds) ==
    IF conds = <<>> THEN 20
    ELSE LET c == conds[Len(conds)]
         IN  IF c \in DOMAIN CONDITION_MULTIPLIERS
             THEN CONDITION_MULTIPLIERS[c]
             ELSE ConditionMultiplierLast(SubSeq(conds, 1, Len(conds) - 1))

RECURSIVE ConditionMultiplier(_)
\* the loop over user_profile.health_conditions: running minimum, from 1.0
ConditionMultiplier(conds) ==
    IF conds = <<>> THEN 20
    ELSE LET c    == conds[Len(conds)]
             sofar == ConditionMultiplier(SubSeq(conds, 1, Len(conds) - 1))
         IN  IF c \in DOMAIN CONDITION_MULTIPLIERS
             THEN Min2(sofar, CONDITION_MULTIPLIERS[c])
             ELSE sofar

\* AGE_MULTIPLIERS.get(age_group, 0.9)
AgeMultiplier(p) ==
    IF p.age_group \in DOMAIN AGE_MULTIPLIERS
    THEN AGE_MULTIPLIERS[p.age_group] ELSE 18

\* HealthRiskCalculator._calculate_fitness_multiplier (1/400)
FitnessMultiplier(p) ==
    LET vo2 == IF Truthy(p.vo2_max_estimate) THEN Val(p.vo2_max_estimate) ELSE 0
        hr  == IF Truthy(p.resting_hr) THEN Val(p.resting_hr) ELSE 0
        vo2factor == IF ~Truthy(p.vo2_max_estimate) THEN 20
                     ELSE IF vo2 < 35 THEN 17
                     ELSE IF vo2 > 50 THEN 23
                     ELSE IF vo2 > 60 THEN 25
                     ELSE 20
        hrfactor  == IF ~Truthy(p.resting_hr) THEN 20
                     ELSE IF hr > 80 THEN 18
                     ELSE IF hr < 55 THEN 22
                     ELSE IF hr < 45 THEN 24
                     ELSE 20
    IN  Min2(Max2(vo2factor * hrfactor, 320), 520)

\* _calculate_hrv_multiplier without the "HRV unknown" early return
HrvMultiplierNoDefault(p) ==
    LET hrv == IF p.avg_hrv = None THEN 0 ELSE Val(p.avg_hrv)
    IN  IF hrv < 30 THEN 17
        ELSE IF hrv < 50 THEN 19
        ELSE IF hrv > 70 THEN 22
        ELSE 20

\* HealthRiskCalculator._calculate_hrv_multiplier (1/20)
HrvMultiplier(p) ==
    IF ~Truthy(p.avg_hrv) THEN 20
    ELSE IF Val(p.avg_hrv) < 30 THEN 17
    ELSE IF Val(p.avg_hrv) < 50 THEN 19
    ELSE IF Val(p.avg_hrv) > 70 THEN 22
    ELSE 20

\* HealthRiskCalculator.calculate_personal_threshold (1/ThresholdScale AQI)
PersonalThreshold(p, level) ==
    BaseThreshold(level) * ConditionMultiplier(p.health_conditions)
        * AgeMultiplier(p) * FitnessMultiplier(p) * HrvMultiplier(p)

\* ---- inputs ----

\* condition tags of the requests; "pregnant" is the tag UserProfile.is_pregnant
\* tests, which CONDITION_MULTIPLIERS does not list
ConditionTags == {"asthma", "copd", "allergies", "diabetes", "pregnant"}
AgeGroups == {"25-34", "65+", "unknown"}
ActivityLevels == {"rest", "light", "moderate", "vigorous", "sprint"}
Vo2Vals == {None, Some(30), Some(55), Some(65)}
RestingHrVals == {None, Some(40), Some(50), Some(85)}
HrvVals == {None, Some(20), Some(80)}

MaxConditions == 2

\* s with c inserted after its first pos elements
InsertAt(s, pos, c) == SubSeq(s, 1, pos) \o <<c>> \o SubSeq(s, pos + 1, Len(s))

InitRisk ==
    /\ profile \in [health_conditions : SeqsUpTo(ConditionTags, MaxConditions),
                    age_group : AgeGroups,
                    resting_hr : RestingHrVals,
                    avg_hrv : HrvVals,
                    vo2_max_estimate : Vo2Vals]
    /\ activity_level \in ActivityLevels
    /\ threshold = None
    /\ prev_threshold = None
    /\ risk_pc = "ready"
    /\ OptIdle /\ WindowsIdle /\ WeeklyIdle /\ ExtIdle
    /\ AuxIdle

CalculatePersonalThreshold ==
    /\ risk_pc = "ready"
    /\ threshold = None
    /\ threshold' = Some(PersonalThreshold(profile, activity_level))
    /\ UNCHANGED <<profile, activity_level, prev_threshold, risk_pc>>
    /\ UNCHANGED <<optVars, twVars, wsVars, extVars, auxVars>>

\* the caller adds one condition tag to the profile's condition list, at any
\* position, all other fields held fixed, after a threshold was computed
AddCondition ==
    /\ risk_pc = "ready"
    /\ threshold # None
    /\ Len(profile.health_conditions) < MaxConditions
    /\ \E c \in ConditionTags : \E pos \in 0..Len(profile.health_conditions) :
           profile' = [profile EXCEPT !.health_conditions = InsertAt(@, pos, c)]
    /\ prev_threshold' = threshold
    /\ threshold' = None
    /\ UNCHANGED <<activity_level, risk_pc>>
    /\ UNCHANGED <<optVars, twVars, wsVars, extVars, auxVars>>

NextRisk == CalculatePersonalThreshold \/ AddCondition

SpecRisk == InitRisk /\ [][NextRisk]_vars

\* ---- claims about the personal threshold ----------------------------------

\* C4: the threshold of a profile with one more condition tag (inserted at
\* any position) is at most the threshold of the profile without it, for the
\* same activity level and the same other profile fields.
ThresholdMonotone ==
    (threshold # None /\ prev_threshold # None) =>
        Val(threshold) <= Val(prev_threshold)

\* a recognised condition was added to a profile and lowered its threshold
ThresholdMonotoneWitness ==
    /\ threshold # None
    /\ prev_threshold # None
    /\ Val(threshold) < Val(prev_threshold)
    /\ Len(profile.health_conditions) = 2

\* the recognised multipliers among a profile's conditions, as a set
RecognisedMultipliers(p) ==
    {CONDITION_MULTIPLIERS[p.health_conditions[i]] :
        i \in {k \in 1..Len(p.health_conditions) :
                  p.health_conditions[k] \in DOMAIN CONDITION_MULTIPLIERS}}

\* the single smallest recognised multiplier, 1.0 when none is recognised
WorstCondition(p) ==
    IF RecognisedMultipliers(p) = {} THEN 20
    ELSE CHOOSE m \in RecognisedMultipliers(p) :
             \A n \in RecognisedMultipliers(p) : m <= n

\* C5: threshold = base(activity) x condition x age x fitness x hrv with the
\* condition factor the single minimum recognised multiplier (1.0 if none),
\* and the base ceilings ordered rest > light > moderate > vigorous.
ThresholdFormula ==
    /\ threshold # None =>
           Val(threshold) = BaseThreshold(activity_level) * WorstCondition(profile)
                         * AgeMultiplier(profile) * FitnessMultiplier(profile)
                         * HrvMultiplier(profile)
    /\ BASE_THRESHOLDS["rest"] > BASE_THRESHOLDS["light"]
    /\ BASE_THRESHOLDS["light"] > BASE_THRESHOLDS["moderate"]
    /\ BASE_THRESHOLDS["moderate"] > BASE_THRESHOLDS["vigorous"]

\* a threshold was computed for a profile with two recognised conditions of
\* different severity, the milder one listed last
ThresholdFormulaWitness ==
    /\ threshold # None
    /\ profile.health_conditions = <<"copd", "allergies">>
    /\ activity_level = "vigorous"

\* the profile of concrete scenario B
ScenarioBProfile ==
    [health_conditions |-> <<>>, age_group |-> "25-34", resting_hr |-> None,
     avg_hrv |-> None, vo2_max_estimate |-> None]

\* C6: with no conditions, age group 25-34 and resting HR, HRV and VO2max
\* absent, the threshold is exactly the base threshold of the activity level
\* (75 for moderate); every absent optional field contributes exactly 1.0.
NeutralDefaults ==
    threshold # None =>
        /\ profile = ScenarioBProfile =>
               /\ Val(threshold) = BaseThreshold(activity_level) * ThresholdScale
               /\ activity_level = "moderate" =>
                      Val(threshold) = 75 * ThresholdScale
        /\ profile.avg_hrv = None =>
               Val(threshold) = PersonalThreshold(
                   [profile EXCEPT !.avg_hrv = Some(60)], activity_level)
        /\ (profile.vo2_max_estimate = None /\ profile.resting_hr = None) =>
               Val(threshold) = PersonalThreshold(
                   [profile EXCEPT !.vo2_max_estimate = Some(40),
                                   !.resting_hr = Some(60)],
                   activity_level)

\* the moderate threshold of the scenario-B profile was computed
NeutralDefaultsWitness ==
    /\ threshold # None
    /\ profile = ScenarioBProfile
    /\ activity_level = "moderate"
    /\ Val(threshold) = 75 * ThresholdScale

(***************************************************************************)
(* TimeWindowOptimizer.find_optimal_windows                                *)
(*                                                                         *)
(* Times are hour offsets from datetime.now(): a window [start, end)       *)
(* covers forecast hours start .. end-1 (0-based, as start_idx/end_idx).   *)
(* aqi_forecast[h + 1] is the 'aqi' of forecast entry h.  weather_forecast *)
(* holds, per forecast hour, the comfort score (percent) that              *)
(* _calculate_weather_score derives from that hour's conditions; the       *)
(* conditions are random draws in _get_weather_forecast.  A window of      *)
(* d hours carries its overall score in units of 1/(1000 d).               *)
(***************************************************************************)

\* np.ceil(duration_minutes / 60)
DurationHours(minutes) == (minutes + 59) \div 60

\* TimeWindowOptimizer._calculate_time_preference_score (percent)
TimePreferenceScore(hour, preferred_time) ==
    IF preferred_time = "morning" THEN
        IF 5 <= hour /\ hour <= 9 THEN 100
        ELSE IF 9 < hour /\ hour <= 11 THEN 70 ELSE 30
    ELSE IF preferred_time = "evening" THEN
        IF 17 <= hour /\ hour <= 20 THEN 100
        ELSE IF 15 <= hour /\ hour < 17 THEN 70 ELSE 30
    ELSE IF preferred_time = "afternoon" THEN
        IF 12 <= hour /\ hour <= 16 THEN 100
        ELSE IF (10 <= hour /\ hour < 12) \/ (16 < hour /\ hour <= 18) THEN 70
        ELSE 30
    ELSE 80

\* TimeWindowOptimizer._calculate_circadian_score (percent)
CircadianScore(hour) ==
    IF 6 <= hour /\ hour <= 8 THEN 90
    ELSE IF 16 <= hour /\ hour <= 19 THEN 100
    ELSE IF 9 <= hour /\ hour <= 11 THEN 80
    ELSE IF 14 <= hour /\ hour <= 16 THEN 70
    ELSE IF (5 <= hour /\ hour < 6) \/ (19 < hour /\ hour <= 20) THEN 50
    ELSE 20

\* the 'aqi' values of forecast hours i .. i+d-1
WindowAqi(forecast, i, d) == SubSeq(forecast, i + 1, i + d)

\* all(aqi < aqi_threshold for aqi in window_aqi); thr in 1/ThresholdScale AQI
MeetsCriteria(forecast, i, d, thr) ==
    \A j \in (i + 1)..(i + d) : forecast[j] * ThresholdScale < thr

\* the window dict built for a qualifying start index
CandidateWindow(forecast, weather, i, d) ==
    [start_idx   |-> i,
     end_idx     |-> i + d,
     sum_aqi     |-> SumSeq(WindowAqi(forecast, i, d)),
     sum_weather |-> SumSeq(SubSeq(weather, i + 1, i + d))]

RECURSIVE ScanShort(_, _, _, _, _)
\* the scan with its loop bound one hour short: i < len - duration_hours
ScanShort(forecast, weather, thr, d, i) ==
    IF i < Len(forecast) - d
    THEN IF MeetsCriteria(forecast, i, d, thr)
         THEN <<CandidateWindow(forecast, weather, i, d)>>
                  \o ScanShort(forecast, weather, thr, d, i + d)
         ELSE ScanShort(forecast, weather, thr, d, i + 1)
    ELSE <<>>

RECURSIVE Scan(_, _, _, _, _)
\* the while loop of _identify_candidate_windows from index i on
Scan(forecast, weather, thr, d, i) ==
    IF i < Len(forecast) - d + 1
    THEN IF MeetsCriteria(forecast, i, d, thr)
         THEN <<CandidateWindow(forecast, weather, i, d)>>
                  \o Scan(forecast, weather, thr, d, i + d)
         ELSE Scan(forecast, weather, thr, d, i + 1)
    ELSE <<>>

\* TimeWindowOptimizer._identify_candidate_windows
IdentifyCandidateWindows(forecast, weather, thr, minutes) ==
    Scan(forecast, weather, thr, DurationHours(minutes), 0)

RECURSIVE InsertByScore(_, _)
\* x placed before the first element whose score is not above x's
InsertByScore(x, s) ==
    IF s = <<>> THEN <<x>>
    ELSE IF Head(s).overall_score <= x.overall_score THEN <<x>> \o s
    ELSE <<Head(s)>> \o InsertByScore(x, Tail(s))

RECURSIVE SortByScoreDesc(_)
\* list.sort(key=overall_score, reverse=True): stable, descending
SortByScoreDesc(s) ==
    IF s = <<>> THEN <<>>
    ELSE InsertByScore(Head(s), SortByScoreDesc(Tail(s)))

\* the TimeWindow _score_windows builds for one candidate window
ScoredWindow(w, hour0) ==
    LET d    == w.end_idx - w.start_idx
        hour == (hour0 + w.start_idx) % 24
    IN  [start |-> w.start_idx,
         end   |-> w.end_idx,
         confidence |-> 80,
         overall_score |->
             2 * (200 * d - w.sum_aqi) + 3 * w.sum_weather
               + (2 * TimePreferenceScore(hour, "morning")
                    + CircadianScore(hour)) * d]

\* TimeWindowOptimizer._score_windows
ScoreWindows(cands, hour0) ==
    SortByScoreDesc([k \in 1..Len(cands) |-> ScoredWindow(cands[k], hour0)])

\* the fallback slot of forecast hour i, scored (200 - aqi) / 200; d is the
\* duration in hours of the call, so that all scores share one unit
FallbackWindow(forecast, i, d) ==
    [start |-> i,
     end   |-> i + 1,
     confidence |-> 60,
     overall_score |-> 5 * d * (200 - forecast[i + 1])]

\* s[:n]
Take(s, n) == SubSeq(s, 1, Min2(Len(s), Max2(n, 0)))

\* TimeWindowOptimizer._find_fallback_windows: one slot per i in
\* range(len(aqi_forecast) - 1), best num_windows of them
FindFallbackWindows(forecast, d, num_windows) ==
    LET n == Max2(Len(forecast) - 1, 0)
    IN  Take(SortByScoreDesc([k \in 1..n |-> FallbackWindow(forecast, k - 1, d)]),
             num_windows)

\* the tail of find_optimal_windows: backfill, then scored_windows[:min_windows]
EnsureMinimum(scored, forecast, d, minw) ==
    LET filled == IF Len(scored) < minw
                  THEN scored \o FindFallbackWindows(forecast, d,
                                                     minw - Len(scored))
                  ELSE scored
    IN  Take(filled, minw)

\* ---- inputs ----

AqiVals == {30, 60, 120}
WeatherVals == {40, 80}
DurationVals == {60, 90}
MinWindowsVals == {2, 3}
NowHourVals == {6, 15}
MaxHours == 4

\* the forecast of concrete scenario D
ScenarioDForecast == <<30, 30, 30, 120, 120, 30, 30, 30>>

\* a profile with asthma, otherwise the scenario-B defaults
AsthmaProfile == [ScenarioBProfile EXCEPT !.health_conditions = <<"asthma">>]

InitWindows ==
    /\ \/ \E n \in 0..MaxHours :
              /\ aqi_forecast \in [1..n -> AqiVals]
              /\ weather_forecast \in [1..n -> WeatherVals]
       \/ /\ aqi_forecast = ScenarioDForecast
          /\ weather_forecast \in [1..Len(ScenarioDForecast) -> WeatherVals]
    /\ profile \in {ScenarioBProfile, AsthmaProfile}
    /\ duration_minutes \in DurationVals
    /\ min_windows \in MinWindowsVals
    /\ now_hour \in NowHourVals
    /\ aqi_threshold = None
    /\ candidate_windows = <<>>
    /\ windows = <<>>
    /\ tw_pc = "ready"
    /\ activity_level = "moderate"
    /\ threshold = None
    /\ prev_threshold = None
    /\ risk_pc = "idle"
    /\ OptIdle /\ WeeklyIdle /\ ExtIdle
    /\ AuxIdle

\* TimeWindowOptimizer.find_optimal_windows
FindOptimalWindows ==
    /\ tw_pc = "ready"
    /\ LET thr    == PersonalThreshold(profile, "moderate")
           cands  == IdentifyCandidateWindows(aqi_forecast, weather_forecast,
                                              thr, duration_minutes)
           scored == ScoreWindows(cands, now_hour)
       IN  /\ aqi_threshold' = Some(thr)
           /\ candidate_windows' = cands
           /\ windows' = EnsureMinimum(scored, aqi_forecast,
                                       DurationHours(duration_minutes),
                                       min_windows)
    /\ tw_pc' = "done"
    /\ UNCHANGED <<aqi_forecast, weather_forecast, duration_minutes,
                   min_windows, now_hour>>
    /\ UNCHANGED <<optVars, riskVars, wsVars, extVars, auxVars>>

NextWindows == FindOptimalWindows

SpecWindows == InitWindows /\ [][NextWindows]_vars

\* ---- claims about find_optimal_windows ------------------------------------

\* C7: no two windows of the returned list have overlapping [start, end)
\* ranges, also when the list was backfilled with fallback hourly slots.
WindowsNeverOverlap ==
    tw_pc = "done" =>
        \A p, q \in 1..Len(windows) :
            p < q => \/ windows[p].end <= windows[q].start
                     \/ windows[q].end <= windows[p].start

\* C8: when the forecast has at least min_windows hourly entries, at least
\* min_windows windows are returned, whatever the AQI values and threshold.
AtLeastMinWindows ==
    (tw_pc = "done" /\ Len(aqi_forecast) >= min_windows) =>
        Len(windows) >= min_windows

\* the [start_idx, end_idx) ranges of the candidate windows, in scan order
CandidateRanges ==
    [k \in 1..Len(candidate_windows) |->
        <<candidate_windows[k].start_idx, candidate_windows[k].end_idx>>]

ScenarioDCall ==
    /\ tw_pc = "done"
    /\ aqi_forecast = ScenarioDForecast
    /\ aqi_threshold = Some(75 * ThresholdScale)
    /\ duration_minutes = 60

\* C9 as stated: scenario D yields exactly two candidate windows, hours
\* [0,3) and [5,8), the maximal contiguous below-threshold runs.
ScenarioDMaximalRuns ==
    ScenarioDCall => CandidateRanges = << <<0, 3>>, <<5, 8>> >>

\* C9 amended: scenario D yields exactly six one-hour candidate windows,
\* [0,1) [1,2) [2,3) [5,6) [6,7) [7,8); candidate windows are consecutive
\* non-overlapping windows of exactly ceil(duration/60) hours, all of whose
\* hours are below threshold, and hours 3 and 4 are in none of them.
ScenarioDHourlyWindows ==
    /\ ScenarioDCall =>
           CandidateRanges = << <<0, 1>>, <<1, 2>>, <<2, 3>>,
                                <<5, 6>>, <<6, 7>>, <<7, 8>> >>
    /\ tw_pc = "done" =>
           \A k \in 1..Len(candidate_windows) :
               /\ candidate_windows[k].end_idx - candidate_windows[k].start_idx
                      = DurationHours(duration_minutes)
               /\ \A h \in candidate_windows[k].start_idx ..
                             (candidate_windows[k].end_idx - 1) :
                      aqi_forecast[h + 1] * ThresholdScale < Val(aqi_threshold)
               /\ k > 1 => candidate_windows[k - 1].end_idx
                               <= candidate_windows[k].start_idx

ScenarioDWitness ==
    /\ ScenarioDCall
    /\ Len(candidate_windows) = 6
    /\ Len(windows) = min_windows

(***************************************************************************)
(* TimeWindowOptimizer.suggest_weekly_schedule                             *)
(*                                                                         *)
(* day_scores[day + 1] is max(overall_score) over the windows that         *)
(* find_optimal_windows returned for that day, or None when it returned    *)
(* no window.  The scores differ per day through the random weather.       *)
(***************************************************************************)

\* for day in range(7)
NumDays == 7
Days == 0..(NumDays - 1)

Abs(x) == IF x < 0 THEN -x ELSE x

\* day_scores.sort(key=score, reverse=True), as the sequence of day indices
SortedDays(scores) ==
    LET sorted == SortByScoreDesc([k \in 1..Len(scores) |->
                      [day |-> k - 1, overall_score |-> Val(scores[k])]])
    IN  [k \in 1..Len(sorted) |-> sorted[k].day]

\* the spacing test accepting any day other than the selected ones
SpacingOkOff(day, selected) ==
    selected = <<>> \/ \A k \in 1..Len(selected) : Abs(day - selected[k]) >= 1

\* the spacing test of the selection loop
SpacingOk(day, selected) ==
    selected = <<>> \/ \A k \in 1..Len(selected) : Abs(day - selected[k]) > 1

RECURSIVE SelectDays(_, _, _)
\* the selection loop over the sorted days
SelectDays(order, selected, rpw) ==
    IF order = <<>> THEN selected
    ELSE IF Len(selected) >= rpw THEN selected
    ELSE IF SpacingOk(Head(order), selected)
         THEN SelectDays(Tail(order), Append(selected, Head(order)), rpw)
         ELSE SelectDays(Tail(order), selected, rpw)

\* ---- inputs ----

\* every strict ordering of the seven days, all days tied, and no forecast
DayScoreVectors ==
    {[k \in 1..NumDays |-> Some(perm[k])] : perm \in Permutations(1..NumDays)}
        \cup {[k \in 1..NumDays |-> Some(1)]}
        \cup {[k \in 1..NumDays |-> None]}

RunsPerWeekVals == 1..NumDays

InitWeekly ==
    /\ day_scores \in DayScoreVectors
    /\ runs_per_week \in RunsPerWeekVals
    /\ selected_days = <<>>
    /\ schedule = <<>>
    /\ ws_pc = "ready"
    /\ OptIdle /\ RiskIdle /\ WindowsIdle /\ ExtIdle
    /\ AuxIdle

\* suggest_weekly_schedule when every day has at least one window
SuggestWeeklySchedule ==
    /\ ws_pc = "ready"
    /\ \A k \in 1..NumDays : day_scores[k] # None
    /\ LET selected == SelectDays(SortedDays(day_scores), <<>>, runs_per_week)
       IN  /\ selected_days' = selected
           /\ schedule' = [day \in Days |->
                              \E k \in 1..Len(selected) : selected[k] = day]
    /\ ws_pc' = "done"
    /\ UNCHANGED <<day_scores, runs_per_week>>
    /\ UNCHANGED <<optVars, riskVars, twVars, extVars, auxVars>>

\* suggest_weekly_schedule when some day has no window: max() of an empty
\* sequence raises ValueError and no schedule is returned
SuggestWeeklyScheduleRaises ==
    /\ ws_pc = "ready"
    /\ \E k \in 1..NumDays : day_scores[k] = None
    /\ ws_pc' = "error"
    /\ UNCHANGED <<day_scores, runs_per_week, selected_days, schedule>>
    /\ UNCHANGED <<optVars, riskVars, twVars, extVars, auxVars>>

NextWeekly == SuggestWeeklySchedule \/ SuggestWeeklyScheduleRaises

SpecWeekly == InitWeekly /\ [][NextWeekly]_vars

\* ---- claims about the weekly schedule --------------------------------------

\* some n pairwise non-adjacent days exist in the 7-day horizon
NonAdjacentSelectionPossible(n) ==
    \E S \in SUBSET Days :
        /\ Cardinality(S) = n
        /\ \A a, b \in S : a # b => Abs(a - b) > 1

\* C10: with runs_per_week = 3, no two consecutive day indices are both run
\* days unless no 3 pairwise non-adjacent days exist, for every ordering of
\* the per-day best-window scores.
WeeklySpacing ==
    (ws_pc = "done" /\ runs_per_week = 3 /\ NonAdjacentSelectionPossible(3)) =>
        \A day \in Days : (day + 1) \in Days =>
            ~(schedule[day] /\ schedule[day + 1])

\* a schedule of three run days was built in which a day that scored better
\* than a selected day was passed over because it neighbours a run day
WeeklySpacingWitness ==
    /\ ws_pc = "done"
    /\ runs_per_week = 3
    /\ Len(selected_days) = 3
    /\ \E day \in Days :
           /\ ~schedule[day]
           /\ Val(day_scores[day + 1]) > Val(day_scores[selected_days[3] + 1])

\* C11: for every runs_per_week in 1..7 and every ordering of the day scores,
\* exactly runs_per_week of the 7 days are run days (an adjacent day is taken
\* when the gap rule cannot be met) and all other days are rest days.
WeeklyExactCount ==
    (ws_pc = "done" /\ runs_per_week \in 1..NumDays) =>
        /\ Cardinality({day \in Days : schedule[day]}) = runs_per_week
        /\ Len(selected_days) = runs_per_week


(***************************************************************************)
(* RunCoachOptimizer._calculate_exposure_score                             *)
(*                                                                         *)
(* A waypoint is a position along a street, counted in quarters of the     *)
(* distance between two neighbouring input waypoints, so that the midpoint *)
(* of a segment and the midpoint of a half segment are again positions.    *)
(* field[p] is what the pollution grid answers for a query at p.  The      *)
(* exposure rate is kept in 1/ExposureScale of the source's value: the     *)
(* term 0.7*pm25 + 0.3*aqi in tenths, time_per_segment in 1/120 minute     *)
(* (exact for 1..6 segments and the durations below), 2.5 as 25 tenths.    *)
(***************************************************************************)
ExposureScale == 10 * 120 * 10

Positions == 0..4
WaypointPositions == {0, 4}
MaxWaypoints == 3
ExposureDurations == {30, 60}
FieldCells == {[aqi |-> 20, pm25 |-> 10], [aqi |-> 100, pm25 |-> 10],
               [aqi |-> 100, pm25 |-> 50]}

\* get_aqi_at_point / get_pm25_at_point at the midpoint of a segment, combined
\* as pm25 * 0.7 + aqi * 0.3 (in tenths)
Midpoint(a, b) == (a + b) \div 2
PollutantTerm(f, p) == 7 * f[p].pm25 + 3 * f[p].aqi

\* the raw sum of the segment terms, each weighted with the whole duration
ExposureScoreRawSum(wps, duration, f) ==
    IF Len(wps) < 2 THEN 0
    ELSE LET time_per_segment == 120 * duration
             segment_exposure(i) ==
                 PollutantTerm(f, Midpoint(wps[i], wps[i + 1]))
                     * time_per_segment * 25
         IN  SumSeq([i \in 1..(Len(wps) - 1) |-> segment_exposure(i)])
                 \div duration

ExposureScore(wps, duration, f) ==
    IF Len(wps) < 2 THEN 0
    ELSE LET time_per_segment == (120 * duration) \div (Len(wps) - 1)
             segment_exposure(i) ==
                 PollutantTerm(f, Midpoint(wps[i], wps[i + 1]))
                     * time_per_segment * 25
             total_exposure ==
                 SumSeq([i \in 1..(Len(wps) - 1) |-> segment_exposure(i)])
         IN  total_exposure \div duration

\* the same path sampled twice as densely: every segment's midpoint becomes a
\* waypoint
InsertMidpoints(wps) ==
    IF Len(wps) < 2 THEN wps
    ELSE [k \in 1..(2 * Len(wps) - 1) |->
            IF k % 2 = 1 THEN wps[(k + 1) \div 2]
            ELSE Midpoint(wps[k \div 2], wps[k \div 2 + 1])]

InitExposure ==
    /\ field \in [Positions -> FieldCells]
    /\ waypoints \in SeqsUpTo(WaypointPositions, MaxWaypoints)
    /\ duration_min \in ExposureDurations
    /\ exposure_score = None
    /\ prev_waypoints = None
    /\ prev_exposure = None
    /\ exp_pc = "ready"
    /\ CoreIdle /\ RouteIdle /\ GridIdle /\ ConcIdle /\ HistoryIdle
    /\ AuxIdle

CalculateExposureScore ==
    /\ exp_pc = "ready"
    /\ exposure_score = None
    /\ exposure_score' = Some(ExposureScore(waypoints, duration_min, field))
    /\ UNCHANGED <<field, waypoints, duration_min, prev_waypoints,
                   prev_exposure, exp_pc>>
    /\ UNCHANGED <<coreVars, routeVars, gridVars, concVars, histVars, auxVars>>

\* the caller submits the same path again with doubled point density and the
\* same duration
DensifyRoute ==
    /\ exp_pc = "ready"
    /\ exposure_score # None
    /\ prev_waypoints = None
    /\ Len(waypoints) >= 2
    /\ prev_waypoints' = Some(waypoints)
    /\ prev_exposure' = exposure_score
    /\ waypoints' = InsertMidpoints(waypoints)
    /\ exposure_score' = None
    /\ UNCHANGED <<field, duration_min, exp_pc>>
    /\ UNCHANGED <<coreVars, routeVars, gridVars, concVars, histVars, auxVars>>

NextExposure == CalculateExposureScore \/ DensifyRoute

SpecExposure == InitExposure /\ [][NextExposure]_vars

UniformField == \A p, q \in DOMAIN field : field[p] = field[q]

\* 2.5 times the largest change of the sampled term between the midpoint of a
\* segment of wps and the midpoints of its two halves
InterpolationTolerance(wps) ==
    LET m(i) == Midpoint(wps[i], wps[i + 1])
        d(i, q) == Abs(PollutantTerm(field, q) - PollutantTerm(field, m(i)))
        worst(i) == Max2(d(i, Midpoint(wps[i], m(i))),
                         d(i, Midpoint(m(i), wps[i + 1])))
        Worst[i \in 0..(Len(wps) - 1)] ==
            IF i = 0 THEN 0 ELSE Max2(worst(i), Worst[i - 1])
    IN  (ExposureScale \div 4) * Worst[Len(wps) - 1]

\* C19: the exposure objective is a rate.  Scoring the same path with every
\* segment's midpoint inserted, at the same duration, moves the score by no
\* more than 2.5 times the largest change of 0.7*pm25 + 0.3*aqi between a
\* segment's midpoint and its quarter points; over a uniform field every route
\* of two or more waypoints scores 2.5 * (0.7*pm25 + 0.3*aqi), whatever its
\* number of waypoints and its duration.
ExposureIsRate ==
    (exp_pc = "ready" /\ exposure_score # None) =>
        /\ prev_exposure # None =>
               Abs(Val(exposure_score) - Val(prev_exposure))
                   <= InterpolationTolerance(Val(prev_waypoints))
        /\ (UniformField /\ Len(waypoints) >= 2) =>
               Val(exposure_score) * 4
                   = ExposureScale * PollutantTerm(field, 0)

ExposureIsRateWitness ==
    /\ exp_pc = "ready"
    /\ exposure_score # None
    /\ prev_exposure # None
    /\ ~UniformField
    /\ Len(waypoints) = 5
    /\ Val(exposure_score) # Val(prev_exposure)

(***************************************************************************)
(* RunCoachOptimizer.optimize_route and the /recommend-route handler       *)
(*                                                                         *)
(* Objectives are integers: exposure in 1/ExposureScale, distance_error in *)
(* thousandths, elevation_penalty in hundredths, green_space and safety in *)
(* tenths (ObjectiveUnit).  Weights are in tenths, and a weighted score is *)
(* in 1/(10 * ExposureScale).                                              *)
(***************************************************************************)
ObjectiveUnit ==
    [exposure |-> ExposureScale, distance_error |-> 1000,
     elevation_penalty |-> 100, green_space |-> 10, safety |-> 10]

HasCondition(prof, tag) ==
    \E i \in 1..Len(prof.health_conditions) : prof.health_conditions[i] = tag

\* RunCoachOptimizer._calculate_objectives
CalculateObjectives(route, prefs, f) ==
    [exposure |-> ExposureScore(route.geometry, route.duration_min, f),
     distance_error |->
         (1000 * Abs(route.distance_m - prefs.preferred_distance_m))
             \div prefs.preferred_distance_m,
     elevation_penalty |->
         Max2(0, route.elevation_gain_m - prefs.max_elevation_gain_m),
     green_space |-> 0 - route.green_coverage,
     safety |-> 0 - route.safety_score]

\* RunCoachOptimizer._get_preference_weights
GetPreferenceWeights(prof, prefs) ==
    [exposure |-> IF HasCondition(prof, "asthma") \/ HasCondition(prof, "copd")
                  THEN 20 ELSE 10,
     distance_error |-> 5,
     elevation_penalty |-> 3,
     green_space |-> IF prefs.prioritize_parks THEN 9
                     ELSE IF HasCondition(prof, "allergies") THEN 8 ELSE 4,
     safety |-> IF prefs.avoid_traffic THEN 8 ELSE 5]

\* the inner loop of _rank_by_preferences: sum of weight * abs(value)
WeightedScore(obj, weights) ==
    LET term(key) == weights[key] * Abs(obj[key])
                         * (ExposureScale \div ObjectiveUnit[key])
    IN  term("exposure") + term("distance_error") + term("elevation_penalty")
            + term("green_space") + term("safety")

RECURSIVE RankFromLast(_, _, _, _, _)
\* the outer loop with `<=`: a later route of equal score replaces the best
RankFromLast(objs, front, weights, k, best) ==
    IF k > Len(front) THEN best
    ELSE IF best = None
            \/ WeightedScore(objs[front[k]], weights)
                   <= WeightedScore(objs[Val(best)], weights)
         THEN RankFromLast(objs, front, weights, k + 1, Some(front[k]))
         ELSE RankFromLast(objs, front, weights, k + 1, best)

RECURSIVE RankFrom(_, _, _, _, _)
\* the outer loop of _rank_by_preferences: best is replaced only by a
\* strictly smaller score (best = None stands for best_score = inf)
RankFrom(objs, front, weights, k, best) ==
    IF k > Len(front) THEN best
    ELSE IF best = None
            \/ WeightedScore(objs[front[k]], weights)
                   < WeightedScore(objs[Val(best)], weights)
         THEN RankFrom(objs, front, weights, k + 1, Some(front[k]))
         ELSE RankFrom(objs, front, weights, k + 1, best)

\* _rank_by_preferences without its guard against an empty front
RankByPreferencesNoGuard(objs, front, weights) ==
    [error |-> "", best |-> RankFrom(objs, front, weights, 1, None)]

\* RunCoachOptimizer._rank_by_preferences
RankByPreferences(objs, front, weights) ==
    IF front = <<>>
    THEN [error |-> "No Pareto optimal solutions found", best |-> None]
    ELSE [error |-> "", best |-> RankFrom(objs, front, weights, 1, None)]

RECURSIVE MaxOf(_, _)
MaxOf(seq, k) == IF k = 1 THEN seq[1] ELSE Max2(seq[k], MaxOf(seq, k - 1))

\* RunCoachOptimizer._create_recommendation: one segment per consecutive pair
\* of waypoints, carrying the AQI at its first waypoint; max() over no
\* segments raises ValueError
CreateRecommendation(route, obj, f) ==
    LET segments == [i \in 1..(Len(route.geometry) - 1) |->
                        f[route.geometry[i]].aqi]
    IN  IF segments = <<>>
        THEN [error |-> "max() arg is an empty sequence", rec |-> None]
        ELSE [error |-> "",
              rec |-> Some([geometry |-> route.geometry,
                            segments |-> segments,
                            max_aqi |-> MaxOf(segments, Len(segments)),
                            exposure_score |-> obj.exposure,
                            total_distance_m |-> route.distance_m])]

\* api._convert_candidate_to_recommendation (default metrics of the source,
\* exposure_score 0.3)
ConvertCandidateToRecommendation(route) ==
    Some([geometry |-> route.geometry,
          segments |-> <<>>,
          max_aqi |-> 55,
          exposure_score |-> (3 * ExposureScale) \div 10,
          total_distance_m |-> route.distance_m])

\* RunCoachOptimizer.optimize_route as a function of its arguments
OptimizeRouteResult(cands, prof, prefs, f) ==
    LET objs == [i \in 1..Len(cands) |-> CalculateObjectives(cands[i], prefs, f)]
        front == FindParetoOptimalRoutes(objs)
        ranked == RankByPreferences(objs, front, GetPreferenceWeights(prof, prefs))
        built == IF ranked.best = None THEN [error |-> "", rec |-> None]
                 ELSE CreateRecommendation(cands[Val(ranked.best)],
                                           objs[Val(ranked.best)], f)
    IN  [objectives |-> objs,
         front |-> front,
         best |-> ranked.best,
         error |-> IF ranked.error # "" THEN ranked.error ELSE built.error,
         rec |-> built.rec]

\* ---- inputs ----
MaxCandidates == 2
RouteGeometries == {<<2>>, <<0, 4>>, <<2, 4>>}
RouteCandidates ==
    [geometry : RouteGeometries, distance_m : {5000, 7500},
     duration_min : {30}, elevation_gain_m : {50},
     green_coverage : {2, 9}, safety_score : {5, 9}]
CleanCell == [aqi |-> 20, pm25 |-> 10]
DirtyCell == [aqi |-> 100, pm25 |-> 50]
\* clean air up to position 2, polluted air beyond it
RouteFields == {[p \in Positions |-> IF p <= 2 THEN CleanCell ELSE DirtyCell]}
AllergyProfile == [ScenarioBProfile EXCEPT !.health_conditions = <<"allergies">>]
CopdProfile == [ScenarioBProfile EXCEPT !.health_conditions = <<"copd">>]
RoutePreferences ==
    [preferred_distance_m : {5000}, max_elevation_gain_m : {100},
     avoid_traffic : BOOLEAN, prioritize_parks : BOOLEAN]

InitRoute ==
    /\ candidate_routes \in SeqsUpTo(RouteCandidates, MaxCandidates)
    /\ preferences \in RoutePreferences
    /\ profile \in {ScenarioBProfile, AsthmaProfile, AllergyProfile, CopdProfile}
    /\ field \in RouteFields
    /\ route_entry = "none"
    /\ evaluated_routes = <<>>
    /\ route_front = <<>>
    /\ best_route = None
    /\ recommendation = None
    /\ route_error = ""
    /\ api_response = "none"
    /\ route_pc = "ready"
    \* the other components
    /\ activity_level = "moderate" /\ threshold = None
    /\ prev_threshold = None /\ risk_pc = "idle"
    /\ waypoints = <<>> /\ duration_min = 30 /\ exposure_score = None
    /\ prev_waypoints = None /\ prev_exposure = None /\ exp_pc = "idle"
    /\ OptIdle /\ WindowsIdle /\ WeeklyIdle /\ GridIdle /\ ConcIdle
    /\ HistoryIdle
    /\ AuxIdle

\* a direct call of RunCoachOptimizer.optimize_route
OptimizeRoute ==
    /\ route_pc = "ready"
    /\ LET res == OptimizeRouteResult(candidate_routes, profile, preferences,
                                      field)
       IN  /\ evaluated_routes' = res.objectives
           /\ route_front' = res.front
           /\ best_route' = res.best
           /\ recommendation' = res.rec
           /\ route_error' = res.error
           /\ route_pc' = IF res.error # "" THEN "ValueError" ELSE "returned"
    /\ route_entry' = "optimize_route"
    /\ UNCHANGED <<candidate_routes, preferences, api_response>>
    /\ UNCHANGED <<coreVars, expVars, gridVars, concVars, histVars, auxVars>>

\* POST /recommend-route from the generated candidates on: no candidates ->
\* mock route; otherwise optimize_route on all of them, and on ValueError the
\* first candidate converted
RecommendRoute ==
    /\ route_pc = "ready"
    /\ IF candidate_routes = <<>>
       THEN /\ api_response' = "mock"
            /\ UNCHANGED <<evaluated_routes, route_front, best_route,
                           recommendation, route_error>>
       ELSE LET res == OptimizeRouteResult(candidate_routes, profile,
                                           preferences, field)
            IN  /\ evaluated_routes' = res.objectives
                /\ route_front' = res.front
                /\ best_route' = res.best
                /\ route_error' = res.error
                /\ recommendation' =
                       IF res.error # ""
                       THEN ConvertCandidateToRecommendation(candidate_routes[1])
                       ELSE res.rec
                /\ api_response' = IF res.error # "" THEN "first_candidate"
                                   ELSE "optimized"
    /\ route_pc' = "returned"
    /\ route_entry' = "recommend_route"
    /\ UNCHANGED <<candidate_routes, preferences>>
    /\ UNCHANGED <<coreVars, expVars, gridVars, concVars, histVars, auxVars>>

NextRoute == OptimizeRoute \/ RecommendRoute

SpecRoute == InitRoute /\ [][NextRoute]_vars

\* C12: optimize_route called with zero candidates ranks an empty front and
\* ends with the error "No Pareto optimal solutions found", returning neither
\* a route nor a recommendation; called with one or more candidates its front
\* is non-empty and that error is not raised.
EmptyFrontIsError ==
    route_entry = "optimize_route" =>
        /\ Len(candidate_routes) = 0 =>
               /\ route_front = <<>>
               /\ route_pc = "ValueError"
               /\ route_error = "No Pareto optimal solutions found"
               /\ best_route = None
               /\ recommendation = None
        /\ Len(candidate_routes) >= 1 =>
               /\ route_front # <<>>
               /\ best_route # None
               /\ route_error # "No Pareto optimal solutions found"

EmptyFrontIsErrorWitness ==
    /\ route_entry = "optimize_route"
    /\ Len(candidate_routes) = 0
    /\ route_pc = "ValueError"

\* C20: the handler rejects a candidate whose geometry has fewer than 2 points
\* before the optimizer runs: no such candidate gets objectives (exposure 0.0),
\* enters the Pareto front, is ranked best, or becomes the recommendation.
ShortGeometryRejected ==
    route_entry = "recommend_route" =>
        /\ \A i \in 1..Len(evaluated_routes) :
               Len(candidate_routes[i].geometry) >= 2
        /\ \A k \in 1..Len(route_front) :
               Len(candidate_routes[route_front[k]].geometry) >= 2
        /\ recommendation # None =>
               Len(Val(recommendation).geometry) >= 2

(***************************************************************************)
(* PollutionGrid: update_grid and the point queries                        *)
(*                                                                         *)
(* Coordinates are integers in tenths of a resolution cell (latitude in    *)
(* cells of resolution/111320 degrees, longitude in cells at the latitude  *)
(* of the region); the padded bounds are in hundredths of a cell.  An      *)
(* interpolated array is kept as its length and the number of the update   *)
(* that fitted it; the value a query returns is the array cell it reads.   *)
(***************************************************************************)
Pollutants == {"aqi", "pm25", "pm10", "o3", "no2"}

\* dict[key] = value
DictSet(d, key, value) ==
    [k \in (DOMAIN d) \cup {key} |-> IF k = key THEN value ELSE d[k]]

RECURSIVE MinOf(_, _)
MinOf(seq, k) == IF k = 1 THEN seq[1] ELSE Min2(seq[k], MinOf(seq, k - 1))

\* PollutionGrid._calculate_bounds: 10% padding of the range on each side
CalculateBounds(sensor_data) ==
    LET lats == [i \in 1..Len(sensor_data) |-> sensor_data[i].location[1]]
        lons == [i \in 1..Len(sensor_data) |-> sensor_data[i].location[2]]
        n == Len(sensor_data)
        lat_range == MaxOf(lats, n) - MinOf(lats, n)
        lon_range == MaxOf(lons, n) - MinOf(lons, n)
    IN  [min_lat |-> 10 * MinOf(lats, n) - lat_range,
         max_lat |-> 10 * MaxOf(lats, n) + lat_range,
         min_lon |-> 10 * MinOf(lons, n) - lon_range,
         max_lon |-> 10 * MaxOf(lons, n) + lon_range]

\* PollutionGrid._create_grid_points: n = int(extent in metres / resolution),
\* then linspace and meshgrid over the bounds
CreateGridPoints(bounds) ==
    [n_lat |-> (bounds.max_lat - bounds.min_lat) \div 100,
     n_lon |-> (bounds.max_lon - bounds.min_lon) \div 100,
     bounds |-> bounds]

\* len(self.grid_points)
NumPoints(points) == points.n_lat * points.n_lon

\* valid_mask of _interpolate_pollutants: not NaN and >= 0, for some reading
HasValidData(sensor_data, pollutant) ==
    \E i \in 1..Len(sensor_data) : sensor_data[i][pollutant] >= 0

\* the arrays stored for one pollutant (griddata, or the mean array of the
\* except branch): one entry per grid point
FittedArray(points, batch) == [len |-> NumPoints(points), batch |-> batch]

RECURSIVE InterpolateFrom(_, _, _, _)
\* the pollutant loop of _interpolate_pollutants over the channels todo, in
\* the order aqi, pm25, pm10, o3, no2; a channel without valid data is skipped
\* with `continue`
InterpolateFrom(g, sensor_data, todo, batch) ==
    IF todo = <<>> THEN g
    ELSE LET pollutant == Head(todo)
             g2 == IF HasValidData(sensor_data, pollutant)
                   THEN [g EXCEPT
                           !.pollution_values =
                               DictSet(@, pollutant,
                                       FittedArray(Val(g.grid_points), batch)),
                           !.uncertainty_values =
                               DictSet(@, pollutant,
                                       FittedArray(Val(g.grid_points), batch))]
                   ELSE g
         IN  InterpolateFrom(g2, sensor_data, Tail(todo), batch)

PollutantOrder == <<"aqi", "pm25", "pm10", "o3", "no2">>

\* update_grid that clears the grid when no sensor data is given
UpdateGridResultClearing(g, sensor_data, batch) ==
    IF sensor_data = <<>> THEN NewGrid
    ELSE LET bounds == CalculateBounds(sensor_data)
             g1 == [g EXCEPT !.grid_bounds = Some(bounds),
                             !.grid_points = Some(CreateGridPoints(bounds))]
             g2 == InterpolateFrom(g1, sensor_data, PollutantOrder, batch)
         IN  [g2 EXCEPT !.last_update = Some(batch)]

\* PollutionGrid.update_grid (bounds not given, as in every caller)
UpdateGridResult(g, sensor_data, batch) ==
    IF sensor_data = <<>> THEN g
    ELSE LET bounds == CalculateBounds(sensor_data)
             g1 == [g EXCEPT !.grid_bounds = Some(bounds),
                             !.grid_points = Some(CreateGridPoints(bounds))]
             g2 == InterpolateFrom(g1, sensor_data, PollutantOrder, batch)
         IN  [g2 EXCEPT !.last_update = Some(batch)]

\* distance (times n - 1) of linspace(lo, hi, n)[k] from x, along one axis
AxisDistance(lo, hi, n, k, x) ==
    IF n = 1 THEN Abs(lo - x)
    ELSE Abs(lo * (n - 1) + k * (hi - lo) - x * (n - 1))

\* first index of the minimum along one axis
AxisNearest(lo, hi, n, x) ==
    CHOOSE k \in 0..(n - 1) :
        /\ \A j \in 0..(n - 1) :
               AxisDistance(lo, hi, n, k, x) <= AxisDistance(lo, hi, n, j, x)
        /\ \A j \in 0..(k - 1) :
               AxisDistance(lo, hi, n, j, x) > AxisDistance(lo, hi, n, k, x)

\* np.argmin(distances) over the raveled meshgrid (row = latitude)
NearestIdx(points, location) ==
    AxisNearest(points.bounds.min_lat, points.bounds.max_lat, points.n_lat,
                10 * location[1]) * points.n_lon
  + AxisNearest(points.bounds.min_lon, points.bounds.max_lon, points.n_lon,
                10 * location[2])

\* _get_value_at_point / get_uncertainty_at_point on the dict `values`:
\* the no-data answer 0.0, the array cell read, or the exception raised
ValueAtPoint(values, points, pollutant, location) ==
    IF pollutant \notin DOMAIN values
    THEN [outcome |-> "return", value |-> <<0>>]
    ELSE IF NumPoints(Val(points)) = 0
    THEN [outcome |-> "ValueError", value |-> <<>>]
    ELSE LET nearest_idx == NearestIdx(Val(points), location)
         IN  IF nearest_idx >= values[pollutant].len
             THEN [outcome |-> "IndexError", value |-> <<>>]
             ELSE [outcome |-> "return",
                   value |-> <<values[pollutant].batch, nearest_idx>>]

GetValueAtPoint(g, pollutant, location) ==
    ValueAtPoint(g.pollution_values, g.grid_points, pollutant, location)

GetUncertaintyAtPoint(g, pollutant, location) ==
    ValueAtPoint(g.uncertainty_values, g.grid_points, pollutant, location)

\* ---- inputs ----
MaxReadings == 2
MaxUpdates == 2
Invalid == 0 - 1
SensorLocations == {<<0, 0>>, <<0, 20>>, <<20, 20>>, <<30, 20>>}
SensorReadings ==
    [location : SensorLocations, aqi : {50}, pm25 : {Invalid, 12},
     pm10 : {20}, o3 : {Invalid}, no2 : {15}]
QueryLocations == {<<0, 0>>, <<30, 20>>}
QueryPollutants == {"aqi", "pm25", "o3"}

InitGrid ==
    /\ grid = NewGrid
    /\ grid_op = [op |-> "none"]
    /\ grid_clock = 0
    /\ CoreIdle /\ ExposureIdle /\ RouteIdle /\ ConcIdle /\ HistoryIdle
    /\ AuxIdle

UpdateGrid ==
    /\ grid_clock < MaxUpdates
    /\ \E sensor_data \in SeqsUpTo(SensorReadings, MaxReadings) :
           /\ grid' = UpdateGridResult(grid, sensor_data, grid_clock + 1)
           /\ grid_clock' = IF sensor_data = <<>> THEN grid_clock
                            ELSE grid_clock + 1
           /\ grid_op' = [op |-> "update_grid", empty |-> sensor_data = <<>>,
                          valid |-> {pollutant \in Pollutants :
                                        HasValidData(sensor_data, pollutant)}]
    /\ UNCHANGED <<coreVars, expVars, routeVars, concVars, histVars, auxVars>>

QueryPoint ==
    /\ \E pollutant \in QueryPollutants, location \in QueryLocations :
           grid_op' = [op |-> "get_value_at_point", pollutant |-> pollutant,
                       location |-> location,
                       result |-> GetValueAtPoint(grid, pollutant, location),
                       uncertainty |->
                           GetUncertaintyAtPoint(grid, pollutant, location)]
    /\ UNCHANGED <<grid, grid_clock>>
    /\ UNCHANGED <<coreVars, expVars, routeVars, concVars, histVars, auxVars>>

NextGrid == UpdateGrid \/ QueryPoint

SpecGrid == InitGrid /\ [][NextGrid]_vars

\* C13: update_grid with an empty list of readings changes no field of the
\* grid (bounds, grid points, value and uncertainty arrays, timestamp), so
\* every point query answers after it what it answered before it; a grid that
\* was never initialised answers every point query with 0.0.
EmptyUpdateIsNoOp ==
    [][/\ (grid_op'.op = "update_grid" /\ grid_op'.empty) =>
              /\ grid' = grid
              /\ \A pollutant \in Pollutants, location \in QueryLocations :
                     GetValueAtPoint(grid', pollutant, location)
                         = GetValueAtPoint(grid, pollutant, location)
       /\ (grid_op'.op = "get_value_at_point" /\ grid'.grid_points = None) =>
              /\ grid_op'.result = [outcome |-> "return", value |-> <<0>>]
              /\ grid_op'.uncertainty = [outcome |-> "return", value |-> <<0>>]
      ]_vars

EmptyUpdateIsNoOpWitness ==
    /\ grid_op.op = "update_grid"
    /\ grid_op.empty
    /\ grid.grid_points # None
    /\ "aqi" \in DOMAIN grid.pollution_values

\* C16: every pollutant in the queryable set has a value array and an
\* uncertainty array with one entry per current grid point.
ArraysAlignWithGrid ==
    grid.grid_points # None =>
        \A pollutant \in DOMAIN grid.pollution_values :
            /\ grid.pollution_values[pollutant].len
                   = NumPoints(Val(grid.grid_points))
            /\ pollutant \in DOMAIN grid.uncertainty_values
            /\ grid.uncertainty_values[pollutant].len
                   = NumPoints(Val(grid.grid_points))

\* C17: after an update with readings the grid has at least 2 latitude steps
\* and at least 2 longitude steps.
GridAtLeastTwoByTwo ==
    grid.grid_points # None =>
        /\ Val(grid.grid_points).n_lat >= 2
        /\ Val(grid.grid_points).n_lon >= 2

(***************************************************************************)
(* PollutionGrid shared by request threads (Flask serves each request on   *)
(* its own thread; the grid object is a module global and has no lock).    *)
(* One thread runs update_grid statement by statement while another runs   *)
(* _get_value_at_point.  The two reads of self.grid_points inside the      *)
(* distance expression are taken as one step.                              *)
(***************************************************************************)
Reading(lat, lon, pm25) ==
    [location |-> <<lat, lon>>, aqi |-> 50, pm25 |-> pm25, pm10 |-> 20,
     o3 |-> Invalid, no2 |-> 15]

\* sensor data of a 3 x 2 grid and of 2 x 2 grids, with and without valid PM2.5
ConcSensorData ==
    {<<Reading(0, 0, 12), Reading(30, 20, 12)>>,
     <<Reading(0, 0, 12), Reading(20, 20, 12)>>,
     <<Reading(0, 0, Invalid), Reading(20, 20, Invalid)>>}

InitGridConc ==
    /\ \E first \in ConcSensorData : grid = UpdateGridResult(NewGrid, first, 1)
    /\ grid_before = grid
    /\ grid_clock = 1
    /\ grid_op = [op |-> "none"]
    /\ \E sensor_data \in ConcSensorData :
           writer = [pc |-> "start", sensor_data |-> sensor_data,
                     todo |-> PollutantOrder]
    /\ \E pollutant \in QueryPollutants, location \in QueryLocations :
           reader = [pc |-> "start", pollutant |-> pollutant,
                     location |-> location, nearest_idx |-> 0,
                     result |-> [outcome |-> "none", value |-> <<>>]]
    /\ CoreIdle /\ ExposureIdle /\ RouteIdle /\ HistoryIdle
    /\ AuxIdle

\* self.grid_bounds = bounds
WriterSetBounds ==
    /\ writer.pc = "start"
    /\ grid' = [grid EXCEPT
                  !.grid_bounds = Some(CalculateBounds(writer.sensor_data))]
    /\ writer' = [writer EXCEPT !.pc = "points"]
    /\ UNCHANGED <<reader, grid_before, grid_op, grid_clock>>
    /\ UNCHANGED <<coreVars, expVars, routeVars, histVars, auxVars>>

\* self.grid_points = self._create_grid_points(bounds)
WriterSetPoints ==
    /\ writer.pc = "points"
    /\ grid' = [grid EXCEPT
                  !.grid_points = Some(CreateGridPoints(Val(grid.grid_bounds)))]
    /\ writer' = [writer EXCEPT !.pc = "values"]
    /\ UNCHANGED <<reader, grid_before, grid_op, grid_clock>>
    /\ UNCHANGED <<coreVars, expVars, routeVars, histVars, auxVars>>

\* the head of the pollutant loop: `continue` without valid data, otherwise
\* self.pollution_values[pollutant] = y_pred
WriterSetValues ==
    /\ writer.pc = "values"
    /\ writer.todo # <<>>
    /\ IF HasValidData(writer.sensor_data, Head(writer.todo))
       THEN /\ grid' = [grid EXCEPT
                          !.pollution_values =
                              DictSet(@, Head(writer.todo),
                                      FittedArray(Val(grid.grid_points),
                                                  grid_clock + 1))]
            /\ writer' = [writer EXCEPT !.pc = "uncertainty"]
       ELSE /\ grid' = grid
            /\ writer' = [writer EXCEPT !.todo = Tail(@)]
    /\ UNCHANGED <<reader, grid_before, grid_op, grid_clock>>
    /\ UNCHANGED <<coreVars, expVars, routeVars, histVars, auxVars>>

\* self.uncertainty_values[pollutant] = y_std
WriterSetUncertainty ==
    /\ writer.pc = "uncertainty"
    /\ grid' = [grid EXCEPT
                  !.uncertainty_values =
                      DictSet(@, Head(writer.todo),
                              FittedArray(Val(grid.grid_points),
                                          grid_clock + 1))]
    /\ writer' = [writer EXCEPT !.pc = "values", !.todo = Tail(@)]
    /\ UNCHANGED <<reader, grid_before, grid_op, grid_clock>>
    /\ UNCHANGED <<coreVars, expVars, routeVars, histVars, auxVars>>

\* self.last_update = datetime.now()
WriterSetLastUpdate ==
    /\ writer.pc = "values"
    /\ writer.todo = <<>>
    /\ grid' = [grid EXCEPT !.last_update = Some(grid_clock + 1)]
    /\ grid_clock' = grid_clock + 1
    /\ writer' = [writer EXCEPT !.pc = "done"]
    /\ UNCHANGED <<reader, grid_before, grid_op>>
    /\ UNCHANGED <<coreVars, expVars, routeVars, histVars, auxVars>>

\* if pollutant not in self.pollution_values: return 0.0
ReaderCheckPollutant ==
    /\ reader.pc = "start"
    /\ reader' = IF reader.pollutant \notin DOMAIN grid.pollution_values
                 THEN [reader EXCEPT
                         !.pc = "done",
                         !.result = [outcome |-> "return", value |-> <<0>>]]
                 ELSE [reader EXCEPT !.pc = "nearest"]
    /\ UNCHANGED <<grid, writer, grid_before, grid_op, grid_clock>>
    /\ UNCHANGED <<coreVars, expVars, routeVars, histVars, auxVars>>

\* distances over self.grid_points and nearest_idx = np.argmin(distances)
ReaderFindNearest ==
    /\ reader.pc = "nearest"
    /\ reader' = IF NumPoints(Val(grid.grid_points)) = 0
                 THEN [reader EXCEPT
                         !.pc = "done",
                         !.result = [outcome |-> "ValueError", value |-> <<>>]]
                 ELSE [reader EXCEPT
                         !.pc = "read",
                         !.nearest_idx = NearestIdx(Val(grid.grid_points),
                                                    reader.location)]
    /\ UNCHANGED <<grid, writer, grid_before, grid_op, grid_clock>>
    /\ UNCHANGED <<coreVars, expVars, routeVars, histVars, auxVars>>

\* return float(self.pollution_values[pollutant][nearest_idx])
ReaderReadValue ==
    /\ reader.pc = "read"
    /\ LET values == grid.pollution_values[reader.pollutant]
       IN  reader' =
               [reader EXCEPT
                  !.pc = "done",
                  !.result =
                      IF reader.nearest_idx >= values.len
                      THEN [outcome |-> "IndexError", value |-> <<>>]
                      ELSE [outcome |-> "return",
                            value |-> <<values.batch, reader.nearest_idx>>]]
    /\ UNCHANGED <<grid, writer, grid_before, grid_op, grid_clock>>
    /\ UNCHANGED <<coreVars, expVars, routeVars, histVars, auxVars>>

NextGridConc ==
    \/ WriterSetBounds \/ WriterSetPoints \/ WriterSetValues
    \/ WriterSetUncertainty \/ WriterSetLastUpdate
    \/ ReaderCheckPollutant \/ ReaderFindNearest \/ ReaderReadValue

SpecGridConc == InitGridConc /\ [][NextGridConc]_vars

\* C14: a point query running while update_grid runs returns what it would
\* return on the grid as it was before the update or on the grid as it is
\* after the update: it never pairs the new grid points with an array of the
\* old grid.
ReaderSeesOldOrNew ==
    reader.pc = "done" =>
        \/ reader.result
               = GetValueAtPoint(grid_before, reader.pollutant, reader.location)
        \/ reader.result
               = GetValueAtPoint(UpdateGridResult(grid_before,
                                                  writer.sensor_data, 2),
                                 reader.pollutant, reader.location)

(***************************************************************************)
(* HealthRiskCalculator: exposure history and exposure budget              *)
(*                                                                         *)
(* A datetime is [type "datetime", day, hour]; datetime.date() gives       *)
(* [type "date", day].  The dicts of the users are objects of hist_heap,   *)
(* and exposure_history maps a user to the reference of the user's dict.   *)
(***************************************************************************)
DateTime(day, hour) == [type |-> "datetime", day |-> day, hour |-> hour]

\* datetime.date()
DateOf(dt) == [type |-> "date", day |-> dt.day]

\* datetime.now()
Now == DateTime(10, 12)

\* dt - timedelta(days=days)
MinusDays(dt, days) == [dt EXCEPT !.day = @ - days]

\* a >= b on dates and datetimes; comparing a date with a datetime raises
\* TypeError
GreaterEq(a, b) ==
    IF a.type # b.type THEN "TypeError"
    ELSE IF a.type = "date" THEN (IF a.day >= b.day THEN "True" ELSE "False")
    ELSE IF a.day > b.day \/ (a.day = b.day /\ a.hour >= b.hour)
         THEN "True" ELSE "False"

RECURSIVE SumOver(_, _)
SumOver(keys, d) ==
    IF keys = {} THEN 0
    ELSE LET k == CHOOSE x \in keys : TRUE
         IN  d[k] + SumOver(keys \ {k}, d)

\* update_exposure_history that overwrites the entry of the date
UpdateExposureHistoryOverwrite(hist, heap, user_id, score, date) ==
    LET date2 == IF date = None THEN Now ELSE Val(date)
        heap1 == IF user_id \notin DOMAIN hist THEN Append(heap, EmptyDict)
                 ELSE heap
        hist1 == IF user_id \notin DOMAIN hist
                 THEN DictSet(hist, user_id, Len(heap) + 1)
                 ELSE hist
        ref == hist1[user_id]
    IN  [history |-> hist1,
         heap |-> [heap1 EXCEPT ![ref] = DictSet(@, DateOf(date2), score)]]

\* update_exposure_history: the user's dict is created when missing, the
\* score is added to the entry of date.date() or becomes that entry
UpdateExposureHistoryResult(hist, heap, user_id, score, date) ==
    LET date2 == IF date = None THEN Now ELSE Val(date)
        heap1 == IF user_id \notin DOMAIN hist THEN Append(heap, EmptyDict)
                 ELSE heap
        hist1 == IF user_id \notin DOMAIN hist
                 THEN DictSet(hist, user_id, Len(heap) + 1)
                 ELSE hist
        date_key == DateOf(date2)
        ref == hist1[user_id]
        entry == IF date_key \in DOMAIN heap1[ref]
                 THEN heap1[ref][date_key] + score
                 ELSE score
    IN  [history |-> hist1,
         heap |-> [heap1 EXCEPT ![ref] = DictSet(@, date_key, entry)]]

\* HealthRiskCalculator._calculate_recent_exposure
RecentExposure(hist, heap, user_id, days) ==
    IF user_id \notin DOMAIN hist THEN [outcome |-> "return", value |-> 0]
    ELSE LET d == heap[hist[user_id]]
             cutoff_date == MinusDays(Now, days)
         IN  IF \E date \in DOMAIN d : GreaterEq(date, cutoff_date) = "TypeError"
             THEN [outcome |-> "TypeError", value |-> 0]
             ELSE [outcome |-> "return",
                   value |-> SumOver({date \in DOMAIN d :
                                         GreaterEq(date, cutoff_date) = "True"},
                                     d)]

\* weekly_base * risk_factor, risk_factor = threshold('moderate') / 75
\* (exact for the profiles below)
WeeklyLimit(prof) ==
    PersonalThreshold(prof, "moderate") \div ((ThresholdScale * 75) \div 5000)

\* daily_base * risk_factor
DailyLimit(prof) ==
    PersonalThreshold(prof, "moderate") \div ((ThresholdScale * 75) \div 1000)

\* HealthRiskCalculator.calculate_exposure_budget (usage_percentage in whole
\* percent)
CalculateExposureBudgetResult(hist, heap, prof, user_id, time_window_days) ==
    LET usage == RecentExposure(hist, heap, user_id, time_window_days)
    IN  IF usage.outcome # "return"
        THEN [outcome |-> usage.outcome]
        ELSE [outcome |-> "return",
              daily_limit |-> DailyLimit(prof),
              weekly_limit |-> WeeklyLimit(prof),
              current_usage |-> usage.value,
              remaining_budget |-> Max2(0, WeeklyLimit(prof) - usage.value),
              usage_percentage |-> (100 * usage.value) \div WeeklyLimit(prof)]

\* ---- inputs ----
MaxHistoryCalls == 3
HistUsers == {"u1", "u2"}
HistScores == {10, 25}
HistDates == {None, Some(DateTime(1, 8)), Some(DateTime(9, 8)),
              Some(DateTime(9, 20))}
WindowDays == 7

InitHistory ==
    /\ exposure_history = EmptyDict
    /\ hist_heap = <<>>
    /\ hist_op = [op |-> "none"]
    /\ hist_calls = 0
    /\ threads = <<>>
    /\ profile \in {ScenarioBProfile, AsthmaProfile}
    /\ activity_level = "moderate" /\ threshold = None
    /\ prev_threshold = None /\ risk_pc = "idle"
    /\ OptIdle /\ WindowsIdle /\ WeeklyIdle
    /\ ExposureIdle /\ RouteIdle /\ GridIdle /\ ConcIdle
    /\ AuxIdle

UpdateExposureHistory ==
    /\ hist_calls < MaxHistoryCalls
    /\ \E user_id \in HistUsers, score \in HistScores,
          date \in HistDates :
           LET res == UpdateExposureHistoryResult(exposure_history, hist_heap,
                                                  user_id, score, date)
           IN  /\ exposure_history' = res.history
               /\ hist_heap' = res.heap
               /\ hist_op' = [op |-> "update_exposure_history",
                              user_id |-> user_id, score |-> score,
                              date |-> IF date = None THEN Now ELSE Val(date)]
    /\ hist_calls' = hist_calls + 1
    /\ UNCHANGED threads
    /\ UNCHANGED <<coreVars, expVars, routeVars, gridVars, concVars, auxVars>>

CalculateExposureBudget ==
    /\ \E user_id \in HistUsers :
           hist_op' = [op |-> "calculate_exposure_budget",
                       user_id |-> user_id,
                       result |-> CalculateExposureBudgetResult(
                                      exposure_history, hist_heap, profile,
                                      user_id, WindowDays)]
    /\ UNCHANGED <<exposure_history, hist_heap, hist_calls, threads>>
    /\ UNCHANGED <<coreVars, expVars, routeVars, gridVars, concVars, auxVars>>

NextHistory == UpdateExposureHistory \/ CalculateExposureBudget

SpecHistory == InitHistory /\ [][NextHistory]_vars

\* the user's history entries dated within the trailing window
EntriesInWindow(user_id) ==
    IF user_id \notin DOMAIN exposure_history THEN {}
    ELSE {date \in DOMAIN hist_heap[exposure_history[user_id]] :
             date.day >= Now.day - WindowDays}

\* C18: after any sequence of update_exposure_history calls, the exposure
\* budget of a user is returned without error, its current_usage is the sum of
\* the user's entries dated within the trailing 7 days, and its
\* remaining_budget is max(0, weekly_limit - current_usage).
BudgetSumsWindow ==
    hist_op.op = "calculate_exposure_budget" =>
        /\ hist_op.result.outcome = "return"
        /\ hist_op.result.current_usage
               = SumOver(EntriesInWindow(hist_op.user_id),
                         hist_heap[exposure_history[hist_op.user_id]])
        /\ hist_op.result.remaining_budget
               = Max2(0, hist_op.result.weekly_limit
                             - hist_op.result.current_usage)

(***************************************************************************)
(* update_exposure_history called by several request threads for the same *)
(* user and date.  A thread can be preempted between any two statements,   *)
(* and inside `d[k] += v` between the read of d[k] and the store.          *)
(***************************************************************************)
HistThreads == 2
ConcUser == "u1"
ConcDateKey == DateOf(Now)

\* the history before the calls: no dict for the user, a dict without an
\* entry for the date, or a dict with one
ConcInitialHistories ==
    {[history |-> EmptyDict, heap |-> <<>>, value |-> 0],
     [history |-> DictSet(EmptyDict, ConcUser, 1),
      heap |-> <<DictSet(EmptyDict, DateOf(DateTime(9, 8)), 10)>>,
      value |-> 0],
     [history |-> DictSet(EmptyDict, ConcUser, 1),
      heap |-> <<DictSet(EmptyDict, ConcDateKey, 5)>>,
      value |-> 5]}

InitHistoryConc ==
    /\ \E init \in ConcInitialHistories :
           /\ exposure_history = init.history
           /\ hist_heap = init.heap
           /\ hist_op = [op |-> "concurrent", initial |-> init.value]
    /\ hist_calls = 0
    /\ threads \in [1..HistThreads ->
                       [pc : {"start"}, exposure_score : HistScores,
                        ref : {0}, value : {0}]]
    /\ CoreIdle /\ ExposureIdle /\ RouteIdle /\ GridIdle /\ ConcIdle
    /\ AuxIdle

\* if user_id not in self.exposure_history:
ThreadCheckUser ==
    /\ \E t \in DOMAIN threads :
           /\ threads[t].pc = "start"
           /\ threads' = [threads EXCEPT
                            ![t].pc = IF ConcUser \notin DOMAIN exposure_history
                                      THEN "create" ELSE "check_date"]
    /\ UNCHANGED <<exposure_history, hist_heap, hist_op, hist_calls>>
    /\ UNCHANGED <<coreVars, expVars, routeVars, gridVars, concVars, auxVars>>

\* self.exposure_history[user_id] = {}
ThreadCreateDict ==
    /\ \E t \in DOMAIN threads :
           /\ threads[t].pc = "create"
           /\ hist_heap' = Append(hist_heap, EmptyDict)
           /\ exposure_history' =
                  DictSet(exposure_history, ConcUser, Len(hist_heap) + 1)
           /\ threads' = [threads EXCEPT ![t].pc = "check_date"]
    /\ UNCHANGED <<hist_op, hist_calls>>
    /\ UNCHANGED <<coreVars, expVars, routeVars, gridVars, concVars, auxVars>>

\* if date_key in self.exposure_history[user_id]:
ThreadCheckDate ==
    /\ \E t \in DOMAIN threads :
           /\ threads[t].pc = "check_date"
           /\ threads' =
                  [threads EXCEPT
                     ![t].pc =
                         IF ConcDateKey
                                \in DOMAIN hist_heap[exposure_history[ConcUser]]
                         THEN "load_value" ELSE "load_ref"]
    /\ UNCHANGED <<exposure_history, hist_heap, hist_op, hist_calls>>
    /\ UNCHANGED <<coreVars, expVars, routeVars, gridVars, concVars, auxVars>>

\* the read half of self.exposure_history[user_id][date_key] += score
ThreadLoadValue ==
    /\ \E t \in DOMAIN threads :
           /\ threads[t].pc = "load_value"
           /\ LET ref == exposure_history[ConcUser]
              IN  threads' =
                      IF ConcDateKey \in DOMAIN hist_heap[ref]
                      THEN [threads EXCEPT
                              ![t].pc = "store",
                              ![t].ref = ref,
                              ![t].value = hist_heap[ref][ConcDateKey]
                                               + threads[t].exposure_score]
                      ELSE [threads EXCEPT ![t].pc = "KeyError"]
    /\ UNCHANGED <<exposure_history, hist_heap, hist_op, hist_calls>>
    /\ UNCHANGED <<coreVars, expVars, routeVars, gridVars, concVars, auxVars>>

\* the dict looked up for self.exposure_history[user_id][date_key] = score
ThreadLoadRef ==
    /\ \E t \in DOMAIN threads :
           /\ threads[t].pc = "load_ref"
           /\ threads' = [threads EXCEPT
                            ![t].pc = "store",
                            ![t].ref = exposure_history[ConcUser],
                            ![t].value = threads[t].exposure_score]
    /\ UNCHANGED <<exposure_history, hist_heap, hist_op, hist_calls>>
    /\ UNCHANGED <<coreVars, expVars, routeVars, gridVars, concVars, auxVars>>

\* the store into the dict looked up
ThreadStore ==
    /\ \E t \in DOMAIN threads :
           /\ threads[t].pc = "store"
           /\ hist_heap' = [hist_heap EXCEPT
                              ![threads[t].ref] =
                                  DictSet(@, ConcDateKey, threads[t].value)]
           /\ threads' = [threads EXCEPT ![t].pc = "done"]
    /\ hist_calls' = hist_calls + 1
    /\ UNCHANGED <<exposure_history, hist_op>>
    /\ UNCHANGED <<coreVars, expVars, routeVars, gridVars, concVars, auxVars>>

NextHistoryConc ==
    \/ ThreadCheckUser \/ ThreadCreateDict \/ ThreadCheckDate
    \/ ThreadLoadValue \/ ThreadLoadRef \/ ThreadStore

SpecHistoryConc == InitHistoryConc /\ [][NextHistoryConc]_vars

\* C15: when all concurrent update_exposure_history calls for one user and
\* date have finished, the stored entry is the entry before the calls plus
\* the sum of all supplied scores.
NoLostIncrement ==
    (\A t \in DOMAIN threads : threads[t].pc \in {"done", "KeyError"}) =>
        /\ \A t \in DOMAIN threads : threads[t].pc = "done"
        /\ ConcUser \in DOMAIN exposure_history
        /\ ConcDateKey \in DOMAIN hist_heap[exposure_history[ConcUser]]
        /\ hist_heap[exposure_history[ConcUser]][ConcDateKey]
               = hist_op.initial
                   + SumSeq([t \in DOMAIN threads |-> threads[t].exposure_score])

(***************************************************************************)
(* TimeWindowOptimizer.suggest_weekly_schedule from the forecast on        *)
(*                                                                         *)
(* The handler calls find_optimal_windows seven times with duration 45 and *)
(* min_windows 2.  Every call gets the same AQI forecast from the service  *)
(* and draws its own weather; here weather_forecast[day + 1] is the hourly *)
(* comfort of that day's call and windows[day + 1] the list it returned.   *)
(***************************************************************************)
WeeklyDuration == 45
WeeklyMinWindows == 2

\* one find_optimal_windows call of the day loop
DayWindows(forecast, weather, prof, hour0) ==
    EnsureMinimum(
        ScoreWindows(IdentifyCandidateWindows(forecast, weather,
                                              PersonalThreshold(prof, "moderate"),
                                              WeeklyDuration),
                     hour0),
        forecast, DurationHours(WeeklyDuration), WeeklyMinWindows)

RECURSIVE MaxScore(_, _)
MaxScore(ws, k) ==
    IF k = 1 THEN ws[1].overall_score
    ELSE Max2(ws[k].overall_score, MaxScore(ws, k - 1))

\* max(w.factors['overall_score'] for w in windows); None stands for the
\* ValueError that max() raises on an empty sequence
BestWindowScore(ws) == IF ws = <<>> THEN None ELSE Some(MaxScore(ws, Len(ws)))

\* comfort levels of the seven weather draws, constant over the hours of a
\* draw: a uniform week, an alternating one and one with two poor days
WeekWeatherLevels ==
    {[k \in 1..NumDays |-> 80],
     [k \in 1..NumDays |-> IF k % 2 = 1 THEN 80 ELSE 40],
     [k \in 1..NumDays |-> IF k \in {1, 4} THEN 40 ELSE 80]}

InitWeekPlan ==
    /\ \E n \in 0..MaxHours :
           /\ aqi_forecast \in [1..n -> AqiVals]
           /\ \E levels \in WeekWeatherLevels :
                  weather_forecast =
                      [k \in 1..NumDays |-> [h \in 1..n |-> levels[k]]]
    /\ profile \in {ScenarioBProfile, AsthmaProfile}
    /\ runs_per_week = 3
    /\ duration_minutes = WeeklyDuration
    /\ min_windows = WeeklyMinWindows
    /\ now_hour = 6
    /\ aqi_threshold = None
    /\ candidate_windows = <<>>
    /\ windows = <<>>
    /\ tw_pc = "idle"
    /\ day_scores = <<>>
    /\ selected_days = <<>>
    /\ schedule = <<>>
    /\ ws_pc = "ready"
    /\ activity_level = "moderate" /\ threshold = None
    /\ prev_threshold = None /\ risk_pc = "idle"
    /\ OptIdle /\ ExtIdle
    /\ AuxIdle

\* TimeWindowOptimizer.suggest_weekly_schedule
WeeklyScheduleFromForecast ==
    /\ ws_pc = "ready"
    /\ LET windows_per_day ==
               [k \in 1..NumDays |->
                   DayWindows(aqi_forecast, weather_forecast[k], profile,
                              now_hour)]
           scores == [k \in 1..NumDays |-> BestWindowScore(windows_per_day[k])]
       IN  /\ windows' = windows_per_day
           /\ IF \E k \in 1..NumDays : scores[k] = None
              THEN /\ ws_pc' = "error"
                   /\ UNCHANGED <<day_scores, selected_days, schedule>>
              ELSE LET selected == SelectDays(SortedDays(scores), <<>>,
                                              runs_per_week)
                   IN  /\ day_scores' = scores
                       /\ selected_days' = selected
                       /\ schedule' =
                              [day \in Days |->
                                  \E k \in 1..Len(selected) : selected[k] = day]
                       /\ ws_pc' = "done"
    /\ UNCHANGED <<aqi_forecast, weather_forecast, duration_minutes,
                   min_windows, now_hour, aqi_threshold, candidate_windows,
                   tw_pc, runs_per_week>>
    /\ UNCHANGED <<optVars, riskVars, extVars, auxVars>>

NextWeekPlan == WeeklyScheduleFromForecast

SpecWeekPlan == InitWeekPlan /\ [][NextWeekPlan]_vars

\* C21: with an empty AQI forecast, or one shorter than the run, the seven
\* find_optimal_windows calls return (possibly empty) lists and
\* suggest_weekly_schedule returns a schedule (possibly all rest days); it
\* never raises.
WeeklyScheduleNeverRaises ==
    ws_pc # "ready" =>
        /\ Len(windows) = NumDays
        /\ ws_pc = "done"
        /\ DOMAIN schedule = Days

\* C22: right after an update with readings, the queryable pollutants are
\* exactly those with a valid reading in that update, and every stored array
\* was fitted by that update: no array of an earlier update survives.
QueryableIffLatestValid ==
    (grid_op.op = "update_grid" /\ ~grid_op.empty) =>
        /\ DOMAIN grid.pollution_values = grid_op.valid
        /\ DOMAIN grid.uncertainty_values = grid_op.valid
        /\ \A pollutant \in DOMAIN grid.pollution_values :
               grid.pollution_values[pollutant].batch = Val(grid.last_update)

\* the entries (user, calendar date) of a history, and their values
HistoryEntries(hist, heap) ==
    {<<u, k>> \in HistUsers \X {DateOf(DateTime(day, 0)) : day \in 0..Now.day} :
        u \in DOMAIN hist /\ k \in DOMAIN heap[hist[u]]}

HistoryValue(hist, heap, e) ==
    IF e \in HistoryEntries(hist, heap) THEN heap[hist[e[1]]][e[2]] ELSE 0

\* C23: a sequential update_exposure_history(user, score, date) adds score to
\* the entry of (user, calendar day of date), creating it when missing, and
\* changes no other entry of any user or date; so every entry is the sum of
\* the scores supplied for it, two timestamps of one day sharing an entry.
HistoryAdditiveLocal ==
    [][hist_op'.op = "update_exposure_history" =>
          LET target == <<hist_op'.user_id, DateOf(hist_op'.date)>>
          IN  /\ HistoryEntries(exposure_history', hist_heap')
                     = HistoryEntries(exposure_history, hist_heap)
                           \cup {target}
              /\ HistoryValue(exposure_history', hist_heap', target)
                     = HistoryValue(exposure_history, hist_heap, target)
                           + hist_op'.score
              /\ \A e \in HistoryEntries(exposure_history, hist_heap) :
                     e # target =>
                         HistoryValue(exposure_history', hist_heap', e)
                             = HistoryValue(exposure_history, hist_heap, e)
      ]_vars

\* a second timestamp of day 9 was added to the entry an earlier timestamp of
\* that day created, while another user has an entry of its own
HistoryAdditiveLocalWitness ==
    /\ hist_op.op = "update_exposure_history"
    /\ hist_op.date = DateTime(9, 20)
    /\ hist_op.user_id = "u1"
    /\ HistoryValue(exposure_history, hist_heap, <<"u1", DateOf(DateTime(9, 8))>>)
           = 35
    /\ "u2" \in DOMAIN exposure_history

\* position of candidate i in the front (0 when it is not in the front)
FrontPosition(front, i) ==
    IF \E k \in 1..Len(front) : front[k] = i
    THEN CHOOSE k \in 1..Len(front) : front[k] = i
    ELSE 0

\* C24: the route optimize_route returns is a member of the Pareto front, its
\* weighted score sum(weight * |objective|) is minimal among the front members
\* and every front member before it in candidate order scores strictly more;
\* the exposure weight is 2.0 iff the profile has asthma or COPD, else 1.0.
BestIsFrontMinimum ==
    (route_entry = "optimize_route" /\ route_pc = "returned") =>
        LET weights == GetPreferenceWeights(profile, preferences)
            best == Val(best_route)
            pos == FrontPosition(route_front, best)
            score(i) == WeightedScore(evaluated_routes[i], weights)
        IN  /\ best_route # None
            /\ pos >= 1
            /\ Val(recommendation).geometry = candidate_routes[best].geometry
            /\ Val(recommendation).total_distance_m
                   = candidate_routes[best].distance_m
            /\ \A k \in 1..Len(route_front) :
                   /\ score(best) <= score(route_front[k])
                   /\ k < pos => score(best) < score(route_front[k])
            /\ weights.exposure =
                   IF \E i \in 1..Len(profile.health_conditions) :
                          profile.health_conditions[i] \in {"asthma", "copd"}
                   THEN 20 ELSE 10

\* two front members tie on the weighted score and the earlier one is returned,
\* for a profile with COPD
BestIsFrontMinimumWitness ==
    /\ route_entry = "optimize_route"
    /\ route_pc = "returned"
    /\ profile = CopdProfile
    /\ Len(route_front) = 2
    /\ best_route = Some(route_front[1])
    /\ WeightedScore(evaluated_routes[route_front[1]],
                     GetPreferenceWeights(profile, preferences))
           = WeightedScore(evaluated_routes[route_front[2]],
                           GetPreferenceWeights(profile, preferences))

\* C25: the list find_optimal_windows returns is in non-increasing order of
\* overall_score, also when qualifying windows and backfilled fallback slots
\* are both present.
WindowsRankedByScore ==
    tw_pc = "done" =>
        \A k \in 1..(Len(windows) - 1) :
            windows[k].overall_score >= windows[k + 1].overall_score


(***************************************************************************)
(* PollutionGrid.find_clean_zones                                          *)
(*                                                                         *)
(* grid_points is the row-major ravel of the meshgrid: point i (from 0) is *)
(* row i \div n_lon (latitude) and column i % n_lon (longitude).  The mask *)
(* is labelled after reshape(-1, 1), i.e. as a column of n_lat * n_lon     *)
(* cells: scipy.ndimage.label joins cells that are adjacent along an axis  *)
(* of the array it is given, and here that array has one column.           *)
(***************************************************************************)
MaxZoneRows == 2
MaxZoneCols == 3
ZoneAqiVals == {30, 40, 80}

NumZonePoints(g) == g.n_lat * g.n_lon

\* clean_mask = self.pollution_values['aqi'] < threshold
CleanMask(g, thr) == [i \in 1..NumZonePoints(g) |-> Val(g.aqi)[i] < thr]

RECURSIVE LabelRuns(_, _, _)
\* ndimage.label of the mask as an (N, 1) array: the features are the maximal
\* runs of consecutive True cells, numbered in scan order; cur is the run
\* being extended (point indices from 0)
LabelRuns(mask, i, cur) ==
    IF i > Len(mask) THEN (IF cur = {} THEN <<>> ELSE <<cur>>)
    ELSE IF mask[i] THEN LabelRuns(mask, i + 1, cur \cup {i - 1})
    ELSE (IF cur = {} THEN <<>> ELSE <<cur>>) \o LabelRuns(mask, i + 1, {})

RECURSIVE SumOfPoints(_, _)
SumOfPoints(values, points) ==
    IF points = {} THEN 0
    ELSE LET p == CHOOSE x \in points : TRUE
         IN  values[p + 1] + SumOfPoints(values, points \ {p})

\* the dict appended for one zone; avg_aqi is sum_aqi / size
ZoneDict(g, points) ==
    [boundary_points |-> points,
     size    |-> Cardinality(points),
     area_m2 |-> Cardinality(points) * g.resolution * g.resolution,
     sum_aqi |-> SumOfPoints(Val(g.aqi), points),
     max_aqi |-> CHOOSE v \in {Val(g.aqi)[p + 1] : p \in points} :
                     \A p \in points : Val(g.aqi)[p + 1] <= v]

\* a's avg_aqi < b's avg_aqi
AvgLess(a, b) == a.sum_aqi * b.size < b.sum_aqi * a.size

RECURSIVE InsertByAvg(_, _)
\* x placed before the first element whose avg_aqi is above x's
InsertByAvg(x, s) ==
    IF s = <<>> THEN <<x>>
    ELSE IF AvgLess(x, Head(s)) THEN <<x>> \o s
    ELSE <<Head(s)>> \o InsertByAvg(x, Tail(s))

RECURSIVE SortByAvgAqi(_)
\* sorted(clean_zones, key=avg_aqi): stable, ascending
SortByAvgAqi(s) ==
    IF s = <<>> THEN <<>>
    ELSE InsertByAvg(s[Len(s)], SortByAvgAqi(SubSeq(s, 1, Len(s) - 1)))

RECURSIVE KeepLargeZones(_, _, _)
\* the loop over the features: len(zone_points) >= min_area_m2 / resolution^2
KeepLargeZones(g, labeled, min_area_m2) ==
    IF labeled = <<>> THEN <<>>
    ELSE (IF Cardinality(Head(labeled)) * g.resolution * g.resolution
                 >= min_area_m2
          THEN <<ZoneDict(g, Head(labeled))>> ELSE <<>>)
             \o KeepLargeZones(g, Tail(labeled), min_area_m2)

\* PollutionGrid.find_clean_zones
FindCleanZonesResult(g, thr, min_area_m2) ==
    IF g.aqi = None THEN <<>>
    ELSE SortByAvgAqi(KeepLargeZones(g, LabelRuns(CleanMask(g, thr), 1, {}),
                                     min_area_m2))

\* ---- inputs ----
ZoneGrids ==
    UNION {[n_lat : {r}, n_lon : {c}, resolution : {100},
            aqi : {None} \cup {Some(a) : a \in [1..(r * c) -> ZoneAqiVals]}] :
           r \in 1..MaxZoneRows, c \in 1..MaxZoneCols}

InitZones ==
    /\ zone_grid \in ZoneGrids
    /\ zone_args \in [threshold : {50}, min_area_m2 : {10000, 20000}]
    /\ clean_zones = <<>>
    /\ zone_pc = "ready"
    /\ CoreIdle /\ ExtIdle /\ ActivityIdle /\ ApiIdle

FindCleanZones ==
    /\ zone_pc = "ready"
    /\ clean_zones' = FindCleanZonesResult(zone_grid, zone_args.threshold,
                                           zone_args.min_area_m2)
    /\ zone_pc' = "returned"
    /\ UNCHANGED <<zone_grid, zone_args>>
    /\ UNCHANGED <<coreVars, extVars, actVars, apiVars>>

NextZones == FindCleanZones

SpecZones == InitZones /\ [][NextZones]_vars

\* row/column neighbours on the n_lat x n_lon grid
GridNeighbours(g, p, q) ==
    \/ /\ p \div g.n_lon = q \div g.n_lon
       /\ (p % g.n_lon) - (q % g.n_lon) \in {0 - 1, 1}
    \/ /\ p % g.n_lon = q % g.n_lon
       /\ (p \div g.n_lon) - (q \div g.n_lon) \in {0 - 1, 1}

RECURSIVE GrowComponent(_, _, _)
GrowComponent(g, clean, S) ==
    LET T == S \cup {q \in clean : \E p \in S : GridNeighbours(g, p, q)}
    IN  IF T = S THEN S ELSE GrowComponent(g, clean, T)

\* C26: find_clean_zones returns the connected components of the
\* below-threshold mask on the 2-D grid (row/column neighbours; the last point
\* of a row and the first of the next are not neighbours), without the zones
\* of fewer than min_area / resolution^2 points, in ascending avg_aqi order.
ZonesAreGridComponents ==
    (zone_pc = "returned" /\ zone_grid.aqi # None) =>
        LET clean == {p \in 0..(NumZonePoints(zone_grid) - 1) :
                         Val(zone_grid.aqi)[p + 1] < zone_args.threshold}
            components == {GrowComponent(zone_grid, clean, {p}) : p \in clean}
            kept == {c \in components :
                        Cardinality(c) * zone_grid.resolution
                            * zone_grid.resolution >= zone_args.min_area_m2}
        IN  /\ {clean_zones[k].boundary_points : k \in 1..Len(clean_zones)}
                   = kept
            /\ Len(clean_zones) = Cardinality(kept)
            /\ \A k \in 1..(Len(clean_zones) - 1) :
                   ~AvgLess(clean_zones[k + 1], clean_zones[k])


(***************************************************************************)
(* HealthRiskCalculator.get_activity_recommendations                       *)
(*                                                                         *)
(* Thresholds are in 1/ThresholdScale AQI as in calculate_personal_        *)
(* threshold.  A forecast window carries the sum of its AQI values, of     *)
(* which 'avg_aqi' and 'quality' are functions.                            *)
(***************************************************************************)
MaxForecastHours == 4

\* the chain of comparisons against threshold * 0.5, 0.75, 1, 1.5
CurrentStatus(aqi, thr) ==
    IF 2 * aqi * ThresholdScale < thr THEN "excellent"
    ELSE IF 4 * aqi * ThresholdScale < 3 * thr THEN "good"
    ELSE IF aqi * ThresholdScale < thr THEN "moderate"
    ELSE IF 2 * aqi * ThresholdScale < 3 * thr THEN "poor"
    ELSE "hazardous"

\* the dict appended for the run of hours start_idx .. end_idx - 1
ForecastWindow(forecast, start_idx, end_idx) ==
    [start_hour |-> start_idx,
     end_hour |-> end_idx,
     duration_hours |-> end_idx - start_idx,
     sum_aqi |-> SumSeq(SubSeq(forecast, start_idx + 1, end_idx))]

RECURSIVE ForecastWindowsNoTail(_, _, _, _, _)
\* the loop without the check of the last window after it
ForecastWindowsNoTail(forecast, thr, min_duration_hours, i, start_idx) ==
    IF i >= Len(forecast) THEN <<>>
    ELSE IF forecast[i + 1] * ThresholdScale < thr
    THEN ForecastWindowsNoTail(forecast, thr, min_duration_hours, i + 1,
                               IF start_idx = None THEN Some(i) ELSE start_idx)
    ELSE (IF start_idx # None /\ i - Val(start_idx) >= min_duration_hours
          THEN <<ForecastWindow(forecast, Val(start_idx), i)>> ELSE <<>>)
             \o ForecastWindowsNoTail(forecast, thr, min_duration_hours,
                                      i + 1, None)

RECURSIVE ForecastWindowsFrom(_, _, _, _, _)
\* HealthRiskCalculator._find_optimal_windows from forecast hour i on, with
\* its local start_idx; the check of the last window follows the loop
ForecastWindowsFrom(forecast, thr, min_duration_hours, i, start_idx) ==
    IF i >= Len(forecast)
    THEN IF start_idx # None
            /\ Len(forecast) - Val(start_idx) >= min_duration_hours
         THEN <<ForecastWindow(forecast, Val(start_idx), Len(forecast))>>
         ELSE <<>>
    ELSE IF forecast[i + 1] * ThresholdScale < thr
    THEN ForecastWindowsFrom(forecast, thr, min_duration_hours, i + 1,
                             IF start_idx = None THEN Some(i) ELSE start_idx)
    ELSE (IF start_idx # None /\ i - Val(start_idx) >= min_duration_hours
          THEN <<ForecastWindow(forecast, Val(start_idx), i)>> ELSE <<>>)
             \o ForecastWindowsFrom(forecast, thr, min_duration_hours,
                                    i + 1, None)

\* get_activity_recommendations: 'current' and 'forecast_windows' of the
\* returned dict (min_duration_hours has its default, 1)
ActivityRecommendations(prof, aqi, forecast) ==
    LET thr == PersonalThreshold(prof, "moderate")
    IN  [current |-> [status |-> CurrentStatus(aqi, thr), aqi |-> aqi,
                      threshold |-> thr],
         forecast_windows |-> ForecastWindowsFrom(forecast, thr, 1, 0, None)]

InitActivity ==
    /\ \E n \in 0..MaxForecastHours : forecast_aqi \in [1..n -> AqiVals]
    /\ current_aqi \in AqiVals
    /\ profile \in {ScenarioBProfile, AsthmaProfile}
    /\ recommendations = None
    /\ act_pc = "ready"
    /\ activity_level = "moderate"
    /\ threshold = None
    /\ prev_threshold = None
    /\ risk_pc = "idle"
    /\ OptIdle /\ WindowsIdle /\ WeeklyIdle /\ ExtIdle /\ ZonesIdle /\ ApiIdle

GetActivityRecommendations ==
    /\ act_pc = "ready"
    /\ recommendations' =
           Some(ActivityRecommendations(profile, current_aqi, forecast_aqi))
    /\ act_pc' = "returned"
    /\ UNCHANGED <<forecast_aqi, current_aqi>>
    /\ UNCHANGED <<coreVars, extVars, zoneVars, apiVars>>

NextActivity == GetActivityRecommendations

SpecActivity == InitActivity /\ [][NextActivity]_vars

\* C27: the forecast windows of the activity recommendations are exactly the
\* maximal runs of consecutive forecast hours whose AQI is strictly below the
\* personal threshold, each at least one hour long; they are disjoint, in
\* forecast order, and a run that reaches the end of the forecast is reported.
ForecastWindowsAreMaximalRuns ==
    act_pc = "returned" =>
        LET thr == Val(recommendations).current.threshold
            n == Len(forecast_aqi)
            below(h) == forecast_aqi[h + 1] * ThresholdScale < thr
            runs == {r \in (0..n) \X (0..n) :
                        /\ r[1] < r[2]
                        /\ \A h \in r[1]..(r[2] - 1) : below(h)
                        /\ r[1] = 0 \/ ~below(r[1] - 1)
                        /\ r[2] = n \/ ~below(r[2])}
            ws == Val(recommendations).forecast_windows
        IN  /\ thr = PersonalThreshold(profile, "moderate")
            /\ {<<ws[k].start_hour, ws[k].end_hour>> : k \in 1..Len(ws)} = runs
            /\ Len(ws) = Cardinality(runs)
            /\ \A k \in 1..Len(ws) :
                   /\ ws[k].duration_hours = ws[k].end_hour - ws[k].start_hour
                   /\ ws[k].duration_hours >= 1
                   /\ k > 1 => ws[k - 1].end_hour < ws[k].start_hour

\* two runs are reported, the second one reaching the end of the forecast
ForecastWindowsWitness ==
    /\ act_pc = "returned"
    /\ Len(Val(recommendations).forecast_windows) = 2
    /\ Val(recommendations).forecast_windows[2].end_hour = Len(forecast_aqi)
    /\ Val(recommendations).forecast_windows[2].duration_hours = 2


\* C28: the fitness multiplier applies every band and stays in [0.8, 1.3]:
\* VO2max > 60 gives 1.25 (50 < VO2max <= 60 gives 1.15), resting HR < 45
\* gives 1.2 (45 <= HR < 55 gives 1.1), the two factors are multiplied
\* independently and the product is clamped; the threshold is computed with it.
FitnessBandsAllApply ==
    threshold # None =>
        LET vo2 == profile.vo2_max_estimate
            hr == profile.resting_hr
            vo2band == IF ~Truthy(vo2) THEN 20
                       ELSE IF Val(vo2) < 35 THEN 17
                       ELSE IF Val(vo2) > 60 THEN 25
                       ELSE IF Val(vo2) > 50 THEN 23
                       ELSE 20
            hrband == IF ~Truthy(hr) THEN 20
                      ELSE IF Val(hr) > 80 THEN 18
                      ELSE IF Val(hr) < 45 THEN 24
                      ELSE IF Val(hr) < 55 THEN 22
                      ELSE 20
            banded == Min2(Max2(vo2band * hrband, 320), 520)
        IN  /\ 320 <= FitnessMultiplier(profile)
            /\ FitnessMultiplier(profile) <= 520
            /\ Val(threshold) =
                   BaseThreshold(activity_level)
                       * ConditionMultiplier(profile.health_conditions)
                       * AgeMultiplier(profile) * banded
                       * HrvMultiplier(profile)


\* C29: in the ranking green space and safety act as benefits: of two
\* evaluated candidates equal in everything but green_coverage and
\* safety_score, the one with the higher (or equal) green_coverage and
\* safety_score never has the larger weighted score.
GreenAndSafetyAreBenefits ==
    route_entry # "none" =>
        LET weights == GetPreferenceWeights(profile, preferences)
        IN  \A i, j \in 1..Len(evaluated_routes) :
                (/\ candidate_routes[i].geometry = candidate_routes[j].geometry
                 /\ candidate_routes[i].distance_m = candidate_routes[j].distance_m
                 /\ candidate_routes[i].duration_min
                        = candidate_routes[j].duration_min
                 /\ candidate_routes[i].elevation_gain_m
                        = candidate_routes[j].elevation_gain_m
                 /\ candidate_routes[i].green_coverage
                        >= candidate_routes[j].green_coverage
                 /\ candidate_routes[i].safety_score
                        >= candidate_routes[j].safety_score)
                    => WeightedScore(evaluated_routes[i], weights)
                           <= WeightedScore(evaluated_routes[j], weights)


(***************************************************************************)
(* api.py: lazy initialisation of the services by concurrent requests      *)
(*                                                                         *)
(* Every request handler starts with _initialize_services(), which takes   *)
(* no lock.  A thread can be preempted between any two statements, so each *)
(* statement of _initialize_services and each use of a global by the       *)
(* handler is a step.  Service objects live in service_heap; a global      *)
(* holds a reference, and the reference of an object is the pair of the    *)
(* thread that constructed it and the global it was constructed for.       *)
(* `uses` is the reference a constructor was given.                        *)
(***************************************************************************)
ApiThreads == 2

\* the assignments of _initialize_services, in order
ServiceOrder ==
    <<"air_quality_service", "pollution_grid", "route_generator",
      "health_risk_calculator", "time_optimizer", "route_optimizer">>

\* the global a constructor call reads for its argument, or None
ConstructorArgument(name, globals) ==
    IF name = "time_optimizer" THEN globals.air_quality_service
    ELSE IF name = "route_optimizer" THEN globals.pollution_grid
    ELSE None

NewRequest == [pc |-> "start", updated |-> None, queried |-> None,
               calculator |-> None]

InitApi ==
    /\ services = NoServices
    /\ service_heap = <<>>
    /\ requests = [t \in 1..ApiThreads |-> NewRequest]
    /\ CoreIdle /\ ExtIdle /\ ZonesIdle /\ ActivityIdle

\* `if not _services_initialized:`
CheckInitialized(t) ==
    /\ requests[t].pc = "start"
    /\ requests' = [requests EXCEPT ![t].pc =
                        IF services.initialized THEN "update_grid"
                        ELSE ServiceOrder[1]]
    /\ UNCHANGED <<services, service_heap>>
    /\ UNCHANGED <<coreVars, extVars, zoneVars, actVars>>

\* one assignment `<global> = <Service>(...)` of _initialize_services
CreateService(t) ==
    \E k \in 1..Len(ServiceOrder) :
        /\ requests[t].pc = ServiceOrder[k]
        /\ service_heap' =
               DictSet(service_heap, <<t, ServiceOrder[k]>>,
                       [kind |-> ServiceOrder[k],
                        uses |-> ConstructorArgument(ServiceOrder[k], services)])
        /\ services' = [services EXCEPT ![ServiceOrder[k]] =
                            Some(<<t, ServiceOrder[k]>>)]
        /\ requests' = [requests EXCEPT ![t].pc =
                            IF k < Len(ServiceOrder) THEN ServiceOrder[k + 1]
                            ELSE "set_initialized"]
        /\ UNCHANGED <<coreVars, extVars, zoneVars, actVars>>

\* `_services_initialized = True`
SetInitialized(t) ==
    /\ requests[t].pc = "set_initialized"
    /\ services' = [services EXCEPT !.initialized = TRUE]
    /\ requests' = [requests EXCEPT ![t].pc = "update_grid"]
    /\ UNCHANGED service_heap
    /\ UNCHANGED <<coreVars, extVars, zoneVars, actVars>>

\* recommend_route: pollution_grid.update_grid(air_quality_data) on the
\* object the global names at this moment
RequestUpdateGrid(t) ==
    /\ requests[t].pc = "update_grid"
    /\ requests' = [requests EXCEPT ![t].pc = "optimize_route",
                                    ![t].updated = services.pollution_grid]
    /\ UNCHANGED <<services, service_heap>>
    /\ UNCHANGED <<coreVars, extVars, zoneVars, actVars>>

\* recommend_route: route_optimizer.optimize_route(...) on the object the
\* global names at this moment; it queries the grid it was constructed with
RequestOptimizeRoute(t) ==
    /\ requests[t].pc = "optimize_route"
    /\ requests' =
           [requests EXCEPT ![t].pc = "health_recommendation",
                            ![t].queried =
                                service_heap[Val(services.route_optimizer)].uses]
    /\ UNCHANGED <<services, service_heap>>
    /\ UNCHANGED <<coreVars, extVars, zoneVars, actVars>>

\* recommend_route: health_risk_calculator.get_activity_recommendations(...)
RequestHealthRecommendation(t) ==
    /\ requests[t].pc = "health_recommendation"
    /\ requests' = [requests EXCEPT ![t].pc = "done",
                                    ![t].calculator =
                                        services.health_risk_calculator]
    /\ UNCHANGED <<services, service_heap>>
    /\ UNCHANGED <<coreVars, extVars, zoneVars, actVars>>

NextApi ==
    \E t \in 1..ApiThreads :
        \/ CheckInitialized(t)
        \/ CreateService(t)
        \/ SetInitialized(t)
        \/ RequestUpdateGrid(t)
        \/ RequestOptimizeRoute(t)
        \/ RequestHealthRecommendation(t)

SpecApi == InitApi /\ [][NextApi]_vars

\* C30: under any interleaving of concurrent first requests the optimizer a
\* request uses queries the PollutionGrid that request updated through the
\* global, and no service object (the HealthRiskCalculator with its exposure
\* history included) is created a second time and put in place of the first.
LazyInitIsSafe ==
    /\ \A t \in DOMAIN requests :
           (requests[t].updated # None /\ requests[t].queried # None) =>
               requests[t].queried = requests[t].updated
    /\ \A r1, r2 \in DOMAIN service_heap :
           service_heap[r1].kind = service_heap[r2].kind => r1 = r2

=============================================================================
